---------------------------- MODULE Spec2Model ----------------------------
(***************************************************************************)
(* A model of the morphology tree engine of nineline/pype9:                *)
(*   src/nineline/cells/morphology.py  (Segment, SegmentClass, Tree)        *)
(*   src/nineline/cells/__init__.py    (Model, SegmentModel, components)    *)
(*                                                                         *)
(* Modelling conventions                                                   *)
(*  - Segments live in an arena of object identities 1..MaxId; `alloc' is  *)
(*    the set of objects constructed so far.  parent_node/children are the *)
(*    two link fields of btmorph's SNode2, kept separately exactly as the  *)
(*    library keeps them (set_parent_node does not touch the child list,   *)
(*    add_child/remove_child do not touch the parent reference).           *)
(*  - Points lie on the x axis, so numpy.sqrt(numpy.sum(disp ** 2)) is the *)
(*    absolute value; coordinates, lengths and diameters are exact         *)
(*    rationals <<num, den>> (floating point rounding is not modelled).    *)
(*    All segments of the initial trees have a non-zero length.            *)
(*  - Names are sequences of atoms; '_'.join and str.format concatenate.   *)
(*  - The sources are Python 2.  Slips that only concern the spelling of   *)
(*    an attribute (seg.diameter() for the property seg.diameter,          *)
(*    seg_classes / classes, get_contents / get_content, self.root for the *)
(*    root segment) are read as the attribute they evidently mean.  What   *)
(*    the statements do to the data is modelled as written: the order of   *)
(*    mutation and validation, iteration over a list that is being         *)
(*    modified, itertools.groupby joining consecutive keys only, reduce()  *)
(*    on an empty list, the loop variable a Python 2 list comprehension    *)
(*    leaves behind, in-place addition to a read-only array copy.          *)
(***************************************************************************)
EXTENDS Integers, Sequences, FiniteSets, TLC

(***************************************************************************)
(* Bounds of the model                                                     *)
(***************************************************************************)
\* largest number of segments of an initial tree
MaxSeg == 5
\* the longest branch section given to d_lambda_rule, in steps of 5 um
MaxLengthSteps == 8
\* number of operations applied to a tree in one behaviour
MaxOps == 2
\* the largest initial tree of a sequence of tree edits
MaxEditSeg == 3
\* the largest tree whose segment classes are edited
MaxClassSeg == 2
\* the longest list of components of a segment
MaxComponents == 4
\* the number of nineml source objects there may be
MaxSources == 3
MaxNormSeg == 4

(***************************************************************************)
(* Exact rational arithmetic                                               *)
(***************************************************************************)
RECURSIVE GCD(_, _)
GCD(a, b) == IF b = 0 THEN a ELSE GCD(b, a % b)

IAbs(a) == IF a < 0 THEN -a ELSE a

\* the rational n/d in lowest terms with a positive denominator
Rat(n, d) ==
    LET g == GCD(IAbs(n), IAbs(d))
        s == IF d < 0 THEN -1 ELSE 1
    IN  <<(s * n) \div g, (s * d) \div g>>

RInt(n) == <<n, 1>>
RZero == <<0, 1>>

\* TLC computes an argument where it is first used, inside whatever uses it;
\* a guard Computed(v) computes v before the expression it guards
Computed(v) == v = v

RAdd(a, b) ==
    CASE Computed(a) /\ Computed(b) ->
        Rat(a[1] * b[2] + b[1] * a[2], a[2] * b[2])
RNeg(a) == <<-a[1], a[2]>>
RSub(a, b) == RAdd(a, RNeg(b))
\* the product, cancelling across the fractions before multiplying
RMul(a, b) ==
    LET g1 == GCD(IAbs(a[1]), b[2])
        g2 == GCD(IAbs(b[1]), a[2])
    IN  CASE Computed(a) /\ Computed(b) ->
            Rat((a[1] \div g1) * (b[1] \div g2), (a[2] \div g2) * (b[2] \div g1))
RInv(a) == CASE Computed(a) -> Rat(a[2], a[1])
RDiv(a, b) == RMul(a, RInv(b))
RAbs(a) == <<IAbs(a[1]), a[2]>>
RLe(a, b) == a[1] * b[2] <= b[1] * a[2]
RLt(a, b) == a[1] * b[2] < b[1] * a[2]

(***************************************************************************)
(* Sequence helpers                                                        *)
(***************************************************************************)
Range(s) == {s[i] : i \in 1..Len(s)}

NoDup(s) == \A i, j \in 1..Len(s) : i # j => s[i] # s[j]

\* list.remove(x): drops the first occurrence of x
RemoveFirst(s, x) ==
    IF \E i \in 1..Len(s) : s[i] = x
    THEN LET k == CHOOSE i \in 1..Len(s) : s[i] = x /\ \A j \in 1..(i - 1) : s[j] # x
         IN  SubSeq(s, 1, k - 1) \o SubSeq(s, k + 1, Len(s))
    ELSE s

RECURSIVE Flatten(_)
Flatten(ss) == IF ss = <<>> THEN <<>> ELSE Head(ss) \o Flatten(Tail(ss))

\* the function f as an explicit table of its values: TLC keeps a function
\* constructor as its defining expression, evaluated again at each application,
\* until it is compared
Tabulate(f) == IF f = f THEN f ELSE f

(***************************************************************************)
(* State                                                                   *)
(***************************************************************************)
VARIABLES
    alloc,            \* segment objects constructed so far
    name,             \* SegmentModel.name / Segment.name
    parent_node,      \* SNode2._parent_node
    children,         \* SNode2._child_nodes (a list)
    distal,           \* content['p3d'].xyz
    diameter,         \* 2 * content['p3d'].radius
    classes,          \* content['classes'] (morphology.Segment)
    components,       \* content['components'] (SegmentModel), a list
    proximal_offset,  \* content['proximal_offset'] (SegmentModel)
    root_segment,     \* Tree.root_segment / Model.root_segment
    shared,           \* the segments whose 'classes' is the one set object of
                      \* the default argument of Segment.__init__
    attributes,       \* SegmentClass._attributes (its keys), by class name
    source,           \* Model._source, an object identity, of the default
                      \* model of the cell class and of the model at hand
    steps,            \* number of operations applied so far
    last              \* the last operation applied and what it reported

treeVars == <<alloc, name, parent_node, children, distal, diameter, classes,
              components, proximal_offset, root_segment>>
classVars == <<shared, attributes>>
vars == <<treeVars, classVars, source, steps, last>>

\* the identities of the nineml objects a model can come from, and one that
\* is neither the source of the default model nor of the model at hand
SourceIds == 1..MaxSources
NewSource(src) ==
    CHOOSE id \in SourceIds \ {src.default_model, src.model} : TRUE

\* object identities; the arena leaves room for the segments operations create
MaxId == 3 * MaxSeg
Ids == 1..MaxId
\* the root SNode2 of the tree, which is no segment
RootNode == 0
\* a missing parent node (None)
NoNode == -1
\* the point of the root node (Model.set_root): the origin
RootPoint == RZero
ClassNames == {"A", "B"}

\* a segment's `parent' property: the parent node if it is a segment, else None
parent(pn, s) == IF pn[s] \in Ids THEN pn[s] ELSE NoNode

\* Segment.siblings: the parent's children other than the segment itself
siblings(pn, ch, s) ==
    IF parent(pn, s) = NoNode THEN <<>>
    ELSE SelectSeq(ch[parent(pn, s)], LAMBDA c : c # s)

\* a variant of all_children that stops at the children
all_children_direct(ch, s) == ch[s]

\* Segment.all_children: the descendants, depth first, parents before children
RECURSIVE all_children(_, _)
RECURSIVE all_children_of(_, _)
all_children_of(ch, cs) ==
    IF cs = <<>> THEN <<>>
    ELSE <<Head(cs)>> \o all_children(ch, Head(cs)) \o all_children_of(ch, Tail(cs))

all_children(ch, s) == all_children_of(ch, ch[s])

\* Tree.segments / Model.segments: chain([root_segment], root_segment.all_children)
segments_of(ch, root) == <<root>> \o all_children(ch, root)

segments == segments_of(children, root_segment)

\* a chain that ends at its first segment
branch_from_single(ch, s) == <<s>>

\* the chain a branch consists of: follow the only child while there is exactly one
RECURSIVE branch_from(_, _)
branch_from(ch, s) ==
    IF Len(ch[s]) = 1 THEN <<s>> \o branch_from(ch, ch[s][1]) ELSE <<s>>

\* Segment.sub_branches on a tree nobody modifies during the iteration
RECURSIVE sub_branches(_, _)
RECURSIVE sub_branches_of(_, _)
sub_branches_of(ch, cs) ==
    IF cs = <<>> THEN <<>>
    ELSE sub_branches(ch, Head(cs)) \o sub_branches_of(ch, Tail(cs))

sub_branches(ch, s) ==
    LET branch == branch_from(ch, s)
    IN  <<branch>> \o sub_branches_of(ch, ch[branch[Len(branch)]])

\* Tree.branches
branches == sub_branches(children, root_segment)

\* Segment.proximal: the distal point of the parent node (plus the offset a
\* SegmentModel may carry)
proximal(pn, ds, off, s) ==
    RAdd(IF pn[s] = RootNode THEN RootPoint ELSE ds[pn[s]], off[s])

\* Segment.disp and Segment.length
disp(pn, ds, off, s) == RSub(ds[s], proximal(pn, ds, off, s))

length(pn, ds, off, s) == RAbs(disp(pn, ds, off, s))

\* Segment.branch_depth: the segments on the way up, the segment itself
\* included, that have siblings
RECURSIVE branch_depth(_, _, _)
branch_depth(pn, ch, s) ==
    IF parent(pn, s) = NoNode THEN 0
    ELSE (IF siblings(pn, ch, s) # <<>> THEN 1 ELSE 0)
         + branch_depth(pn, ch, parent(pn, s))

\* SegmentModel.path_to_ancestor (lines 769-782): what the generator yields
\* from next_ancestor on, and the exception it ends with, if any
RECURSIVE path_to_ancestor(_, _, _)
path_to_ancestor(pn, next_ancestor, ancestor) ==
    IF parent(pn, next_ancestor) = ancestor
    THEN [yielded |-> <<>>, raised |-> ""]
    ELSE IF parent(pn, next_ancestor) = NoNode
    THEN [yielded |-> <<next_ancestor>>, raised |-> "Exception"]
    ELSE LET rest == path_to_ancestor(pn, parent(pn, next_ancestor), ancestor)
         IN  [rest EXCEPT !.yielded = <<next_ancestor>> \o @]

(***************************************************************************)
(* Component models (src/nineline/cells/__init__.py, lines 785-920)        *)
(***************************************************************************)
\* a component is the record of its class (type), name, class_name, value
\* (static components) and needs_tuning flag (axial resistances)
Component(type, nm, class_name, value, needs_tuning) ==
    [type |-> type, name |-> nm, class_name |-> class_name, value |-> value,
     needs_tuning |-> needs_tuning]

\* isinstance(comp, PointProcessModel)
IsPointProcess(comp) ==
    comp.type \in {"PointProcessModel", "SynapseModel", "CurrentClampModel"}

\* isinstance(comp, DynamicComponentModel)
IsDynamic(comp) == comp.type = "IonChannelModel" \/ IsPointProcess(comp)

AxialResistanceModel(nm, value) ==
    Component("AxialResistanceModel", nm, "Ra", value, FALSE)

MembraneCapacitanceModel(nm, value) ==
    Component("MembraneCapacitanceModel", nm, "cm", value, FALSE)

\* the defaults Model.from_9ml sets on every segment (lines 134-138): cm, then Ra
default_components ==
    <<MembraneCapacitanceModel(<<"cm_default">>, RInt(1)),
      AxialResistanceModel(<<"Ra_default">>, RInt(100))>>

IonChannelModel(nm, class_name) ==
    Component("IonChannelModel", nm, class_name, RZero, FALSE)

SynapseModel(nm, class_name) ==
    Component("SynapseModel", nm, class_name, RZero, FALSE)

\* a variant of set_component that appends without looking for a clash
set_component_unchecked(cs, comp, overwrite) ==
    [components |-> Append(cs, comp), raised |-> ""]

\* SegmentModel.set_component (lines 530-558) on the list cs; `raised' names
\* the exception, "" when there is none
set_component(cs, comp, overwrite) ==
    LET clash == SelectSeq(cs, LAMBDA c : c.class_name = comp.class_name)
    IN  IF IsPointProcess(comp)
        THEN [components |-> Append(cs, comp), raised |-> ""]
        ELSE IF Len(clash) >= 2
        THEN [components |-> cs, raised |-> "AssertionError"]
        ELSE IF clash # <<>> /\ ~overwrite
        THEN [components |-> cs, raised |-> "Exception"]
        ELSE IF clash # <<>>
        THEN [components |-> Append(RemoveFirst(cs, clash[1]), comp), raised |-> ""]
        ELSE [components |-> Append(cs, comp), raised |-> ""]

\* SegmentModel.remove_component (lines 560-561): list.remove raises
\* ValueError when the component is not in the list
remove_component(cs, comp) ==
    IF comp \in Range(cs)
    THEN [components |-> RemoveFirst(cs, comp), raised |-> ""]
    ELSE [components |-> cs, raised |-> "ValueError"]

\* SegmentModel.dynamic_components
dynamic_components(cs) == SelectSeq(cs, IsDynamic)

\* SegmentModel.get_component_by_type (lines 581-588): the matches of the type
components_by_type(cs, type) == SelectSeq(cs, LAMBDA c : c.type = type)

(***************************************************************************)
(* Initial trees: what Tree.from_9ml / Model.from_9ml build                *)
(***************************************************************************)
\* the ascending list of a set of integers
RECURSIVE SortedSeq(_)
SortedSeq(S) ==
    IF S = {} THEN <<>>
    ELSE LET m == CHOOSE x \in S : \A y \in S : x <= y
         IN  <<m>> \o SortedSeq(S \ {m})

\* the parent of every non-root segment of a tree of n segments; segment 1 is
\* the root segment and parents are created before their children
Shapes(n) == {p \in [2..n -> 1..n] : \A i \in 2..n : p[i] < i}

\* two geometries: 1 is the tree of the merge scenario (root of diameter 10,
\* every other segment of diameter 2 and length 5), 2 varies with the segment
Geometries == {1, 2}

InitLength(g, i) ==
    IF g = 1 THEN (IF i = 1 THEN 10 ELSE 5) ELSE i + 1

InitDiameter(g, i) ==
    IF g = 1 THEN (IF i = 1 THEN 10 ELSE 2) ELSE 1 + (i % 3)

\* add_node_with_parent(segment, parent) for every segment: the distal point
\* of a segment lies InitLength beyond the distal point of its parent
RECURSIVE InitPoint(_, _, _)
InitPoint(p, g, i) ==
    IF i = 1 THEN InitLength(g, 1)
    ELSE InitPoint(p, g, p[i]) + InitLength(g, i)

InitTree(n, p, g, cls) ==
    /\ alloc = 1..n
    /\ name = [i \in Ids |-> IF i <= n THEN <<i>> ELSE <<>>]
    /\ parent_node = [i \in Ids |-> IF i = 1 THEN RootNode
                                    ELSE IF i <= n THEN p[i] ELSE NoNode]
    /\ children = [i \in Ids |-> SortedSeq({j \in 2..n : p[j] = i})]
    /\ distal = [i \in Ids |-> IF i <= n THEN RInt(InitPoint(p, g, i)) ELSE RZero]
    /\ diameter = [i \in Ids |-> IF i <= n THEN RInt(InitDiameter(g, i)) ELSE RZero]
    /\ classes = [i \in Ids |-> IF i <= n THEN cls[i] ELSE {}]
    /\ components = [i \in Ids |-> IF i <= n THEN default_components ELSE <<>>]
    /\ proximal_offset = [i \in Ids |-> RZero]
    /\ root_segment = 1
    /\ attributes = [c \in ClassNames |-> {}]
    /\ source = [default_model |-> 1, model |-> 1]

\* every segment in no class, or the segments of odd identity in class A
PlainClasses(n) ==
    {[i \in 1..n |-> {}], [i \in 1..n |-> IF i % 2 = 1 THEN {"A"} ELSE {}]}

\* trees of the first geometry, for the sequences of tree edits
Init ==
    /\ \E n \in 1..MaxEditSeg :
         \E p \in Shapes(n), cls \in PlainClasses(n) : InitTree(n, p, 1, cls)
    /\ shared = {}
    /\ steps = 0
    /\ last = [op |-> "init"]

\* trees of both geometries with every assignment of classes to the segments
\* below the root, for merge_leaves
InitMerge ==
    /\ \E n \in 1..MaxSeg :
         \E p \in Shapes(n), g \in Geometries,
            cls \in {c \in [1..n -> {{}, {"A"}}] : c[1] = {}} :
            InitTree(n, p, g, cls)
    /\ shared = {}
    /\ steps = 0
    /\ last = [op |-> "init"]

\* trees of both geometries, for the distal setters
InitDistal ==
    /\ \E n \in 1..MaxSeg :
         \E p \in Shapes(n), g \in Geometries :
            InitTree(n, p, g, [i \in 1..n |-> {}])
    /\ shared = {}
    /\ steps = 0
    /\ last = [op |-> "init"]

(***************************************************************************)
(* btmorph's STree2 / SNode2 primitives, on a record t of the tree fields  *)
(***************************************************************************)
Tree ==
    [alloc |-> alloc, name |-> name, parent_node |-> parent_node,
     children |-> children, distal |-> distal, diameter |-> diameter,
     classes |-> classes, components |-> components,
     proximal_offset |-> proximal_offset]

\* the first identity no object has yet
NewId(t) == CHOOSE i \in Ids \ t.alloc : \A j \in Ids \ t.alloc : i <= j

\* SNode2.make_empty on every node of S: no parent, no content, no children
make_empty(t, S) ==
    [t EXCEPT !.parent_node = Tabulate([i \in Ids |-> IF i \in S THEN NoNode ELSE @[i]]),
              !.children = Tabulate([i \in Ids |-> IF i \in S THEN <<>> ELSE @[i]]),
              !.distal = Tabulate([i \in Ids |-> IF i \in S THEN RZero ELSE @[i]]),
              !.diameter = Tabulate([i \in Ids |-> IF i \in S THEN RZero ELSE @[i]]),
              !.classes = Tabulate([i \in Ids |-> IF i \in S THEN {} ELSE @[i]]),
              !.components = Tabulate([i \in Ids |-> IF i \in S THEN <<>> ELSE @[i]]),
              !.proximal_offset = Tabulate([i \in Ids |-> IF i \in S THEN RZero ELSE @[i]])]

\* STree2.remove_node(node): node.get_parent_node().remove_child(node), then
\* _deep_remove(node) empties the node and all its descendants
remove_node(t, node) ==
    LET p == t.parent_node[node]
        t1 == IF p \in Ids
              THEN [t EXCEPT !.children[p] = RemoveFirst(@, node)]
              ELSE t
    IN  make_empty(t1, {node} \cup Range(all_children(t.children, node)))

(***************************************************************************)
(* Tree.merge_leaves                                                       *)
(***************************************************************************)
RECURSIVE RSum(_)
RSum(qs) == IF qs = <<>> THEN RZero ELSE RAdd(Head(qs), RSum(Tail(qs)))

IMax(S) == CHOOSE x \in S : \A y \in S : y <= x

\* itertools.groupby over a list bs whose keys are ks: a new group starts
\* whenever the key changes, so equal keys that are not next to each other end
\* up in different groups
RECURSIVE groupby(_, _)
groupby(bs, ks) ==
    IF bs = <<>> THEN <<>>
    ELSE LET rest == groupby(Tail(bs), Tail(ks))
         IN  IF rest # <<>> /\ Len(ks) > 1 /\ ks[2] = ks[1]
             THEN <<(<<Head(bs)>> \o Head(rest))>> \o Tail(rest)
             ELSE <<(<<Head(bs)>>)>> \o rest

\* the branches merge_leaves first selects (lines 357-364)
candidates0(t, root, only_most_distal) ==
    LET bs == sub_branches(t.children, root)
        max_branch_depth ==
            IMax({branch_depth(t.parent_node, t.children, seg) :
                    seg \in Range(segments_of(t.children, root))})
    IN  IF only_most_distal
        THEN SelectSeq(bs, LAMBDA b :
                 branch_depth(t.parent_node, t.children, b[1]) = max_branch_depth)
        ELSE SelectSeq(bs, LAMBDA b : t.children[b[Len(b)]] = <<>>)

\* ... of which those with consistent classes stay (lines 366-368)
\* a variant of candidates without the filter on the classes
candidates_any_class(t, root, only_most_distal) ==
    candidates0(t, root, only_most_distal)

candidates(t, root, only_most_distal) ==
    SelectSeq(candidates0(t, root, only_most_distal),
              LAMBDA b : \A i \in 1..Len(b) : t.classes[b[i]] = t.classes[b[1]])

\* the key of line 374: (b[0].parent, b[0].seg_classes)
group_key(t, b) == <<parent(t.parent_node, b[1]), t.classes[b[1]]>>

sibling_seg_classes(t, cands) ==
    groupby(cands, [i \in 1..Len(cands) |-> group_key(t, cands[i])])

t_length(t, s) == length(t.parent_node, t.distal, t.proximal_offset, s)

t_disp(t, s) == disp(t.parent_node, t.distal, t.proximal_offset, s)

\* lines 378-380: the summed length of all the segments over the number of branches
average_length(t, sibs) ==
    RDiv(RSum([i \in 1..Len(Flatten(sibs)) |-> t_length(t, Flatten(sibs)[i])]),
         RInt(Len(sibs)))

\* lines 381-382
total_surface_area(t, sibs) ==
    RSum([i \in 1..Len(Flatten(sibs)) |->
            RMul(t_length(t, Flatten(sibs)[i]), t.diameter[Flatten(sibs)[i]])])

\* a variant of merged_diameter that divides by the summed length
merged_diameter_by_total(t, sibs) ==
    RDiv(total_surface_area(t, sibs),
         RSum([i \in 1..Len(Flatten(sibs)) |-> t_length(t, Flatten(sibs)[i])]))

\* line 383
merged_diameter(t, sibs) ==
    RDiv(total_surface_area(t, sibs), average_length(t, sibs))

\* lines 384-386: `branch' is whatever an earlier loop left in the variable
merged_name(t, sibs, branch) ==
    t.name[sibs[1][1]]
      \o (IF Len(branch) > 1 THEN t.name[sibs[Len(sibs)][1]] ELSE <<>>)

\* lines 389-390: the distal point of the new segment, in the direction of the parent
merged_distal(t, sibs, par) ==
    RAdd(t.distal[par],
         RMul(t_disp(t, par), RDiv(average_length(t, sibs), t_length(t, par))))

RECURSIVE remove_nodes(_, _)
remove_nodes(t, sibs) ==
    IF sibs = <<>> THEN t
    ELSE remove_nodes(remove_node(t, Head(sibs)[1]), Tail(sibs))

\* line 395: segment.set_parent_node(parent) is all that links the new segment
attach_merged(t, segment, par) ==
    [t EXCEPT !.parent_node[segment] = par]

\* lines 377-395 for one group of more than one branch
merge_siblings(t, sibs, branch) ==
    LET par == parent(t.parent_node, sibs[1][1])
        segment == NewId(t)
        t1 == [t EXCEPT !.alloc = @ \cup {segment},
                        !.name[segment] = merged_name(t, sibs, branch),
                        !.distal[segment] = merged_distal(t, sibs, par),
                        !.diameter[segment] = merged_diameter(t, sibs),
                        !.classes[segment] = t.classes[sibs[1][1]],
                        !.components[segment] = <<>>,
                        !.parent_node[segment] = NoNode,
                        !.children[segment] = <<>>]
    IN  attach_merged(remove_nodes(t1, sibs), segment, par)

\* the loop of line 375; r = [t, branch, merged] is carried from group to group
RECURSIVE merge_groups(_, _)
merge_groups(r, groups) ==
    IF groups = <<>> THEN r
    ELSE LET sibs == Head(groups)
         IN  IF Len(sibs) > 1
             THEN merge_groups(
                      [t |-> merge_siblings(r.t, sibs, r.branch),
                       branch |-> sibs[Len(sibs)],
                       merged |-> Append(r.merged,
                                         [segment |-> NewId(r.t),
                                          parent |-> parent(r.t.parent_node, sibs[1][1]),
                                          siblings |-> sibs])],
                      Tail(groups))
             ELSE merge_groups(r, Tail(groups))

merge_leaves(t, root, only_most_distal) ==
    LET c0 == candidates0(t, root, only_most_distal)
        cands == candidates(t, root, only_most_distal)
    IN  merge_groups([t |-> t, branch |-> c0[Len(c0)], merged |-> <<>>],
                     sibling_seg_classes(t, cands))

SetTree(t) ==
    /\ alloc' = t.alloc
    /\ name' = t.name
    /\ parent_node' = t.parent_node
    /\ children' = t.children
    /\ distal' = t.distal
    /\ diameter' = t.diameter
    /\ classes' = t.classes
    /\ components' = t.components
    /\ proximal_offset' = t.proximal_offset

\* Tree.merge_leaves(only_most_distal).  normalise_sampling has no effect on
\* the tree: Tree.normalise_spatial_sampling works on deepcopy(self) and
\* merge_leaves drops what it returns.
MergeLeaves(only_most_distal) ==
    /\ UNCHANGED source
    /\ steps < MaxOps
    /\ LET cands == candidates(Tree, root_segment, only_most_distal)
           groups == sibling_seg_classes(Tree, cands)
           r == merge_leaves(Tree, root_segment, only_most_distal)
       IN  /\ Cardinality(Ids \ alloc) >= Len(groups)
           /\ IF cands = <<>>
              THEN /\ UNCHANGED <<treeVars, shared>>
                   /\ last' = [op |-> "merge_leaves", raised |-> TRUE,
                               merged |-> <<>>]
              ELSE /\ SetTree(r.t)
                   /\ UNCHANGED root_segment
                   \* the new segment is given the set object of the first
                   \* segment of the first branch of its group
                   /\ shared' = {i \in shared : parent_node[i] = NoNode
                                                \/ r.t.parent_node[i] # NoNode}
                                  \cup {r.merged[i].segment : i \in
                                          {j \in 1..Len(r.merged) :
                                             r.merged[j].siblings[1][1] \in shared}}
                   /\ last' = [op |-> "merge_leaves", raised |-> FALSE,
                               merged |-> r.merged]
    /\ steps' = steps + 1
    /\ UNCHANGED attributes

(***************************************************************************)
(* The distal setters                                                      *)
(***************************************************************************)
\* morphology.Segment.distal (lines 65-77).  The getter hands out the array of
\* the point itself, so `child.distal += disp' adds to the child's point in
\* place and then passes that same array to the child's setter, which finds a
\* displacement of zero for the child's own descendants.
RECURSIVE Segment_set_distal(_, _, _, _)
RECURSIVE Segment_shift_children(_, _, _, _)
Segment_shift_children(ch, ds, cs, dsp) ==
    IF cs = <<>> THEN ds
    ELSE LET child == Head(cs)
             inplace == [ds EXCEPT ![child] = RAdd(@, dsp)]
         IN  Segment_shift_children(
                 ch, Segment_set_distal(ch, inplace, child, inplace[child]),
                 Tail(cs), dsp)

Segment_set_distal(ch, ds, s, d) ==
    LET dsp == RSub(d, ds[s])
        shifted == Segment_shift_children(ch, ds, all_children(ch, s), dsp)
    IN  [shifted EXCEPT ![s] = d]    \* raw_set_distal

\* SegmentModel.distal (lines 623-659).  The getter returns a deep copy with
\* setflags(write=False), so the in-place addition of `child.distal += disp'
\* raises ValueError at the first descendant, before anything has been moved;
\* a segment without descendants goes straight to raw_set_distal.
SegmentModel_distal_raises(ch, s) == all_children(ch, s) # <<>>

SegmentModel_set_distal(ch, ds, s, d) ==
    IF SegmentModel_distal_raises(ch, s) THEN ds ELSE [ds EXCEPT ![s] = d]

\* the displacements the model tries
Displacements == {RInt(2), Rat(-1, 2)}

\* segment.distal = distal[segment] + dsp, for a morphology.Segment
SegmentSetDistal(s, dsp) ==
    /\ UNCHANGED source
    /\ steps = 0
    /\ s \in Range(segments)
    /\ distal' = Segment_set_distal(children, distal, s, RAdd(distal[s], dsp))
    /\ last' = [op |-> "Segment.distal", segment |-> s,
                distal |-> RAdd(distal[s], dsp), raised |-> FALSE]
    /\ steps' = steps + 1
    /\ UNCHANGED <<alloc, name, parent_node, children, diameter, classes,
                   components, proximal_offset, root_segment, classVars>>

\* segment.distal = distal[segment] + dsp, for a SegmentModel
SegmentModelSetDistal(s, dsp) ==
    /\ UNCHANGED source
    /\ steps = 0
    /\ s \in Range(segments)
    /\ distal' = SegmentModel_set_distal(children, distal, s, RAdd(distal[s], dsp))
    /\ last' = [op |-> "SegmentModel.distal", segment |-> s,
                distal |-> RAdd(distal[s], dsp),
                raised |-> SegmentModel_distal_raises(children, s)]
    /\ steps' = steps + 1
    /\ UNCHANGED <<alloc, name, parent_node, children, diameter, classes,
                   components, proximal_offset, root_segment, classVars>>

\* SegmentModel.length setter (lines 681-692): the displacement of the
\* segment scaled to the new length, added to the proximal point and assigned
\* to `distal'
SegmentModel_scaled_distal(pn, ds, off, s, len) ==
    LET seg_disp == disp(pn, ds, off, s)
        orig_length == RAbs(seg_disp)
    IN  RAdd(proximal(pn, ds, off, s), RMul(seg_disp, RDiv(len, orig_length)))

\* the lengths the model sets
NewLengths == {RInt(3), Rat(15, 2)}

\* segment.length = len, for a SegmentModel
SegmentModelSetLength(s, len) ==
    /\ UNCHANGED source
    /\ steps = 0
    /\ s \in Range(segments)
    /\ distal' = SegmentModel_set_distal(
                     children, distal, s,
                     SegmentModel_scaled_distal(parent_node, distal,
                                                proximal_offset, s, len))
    /\ last' = [op |-> "SegmentModel.length", segment |-> s, length |-> len,
                raised |-> SegmentModel_distal_raises(children, s)]
    /\ steps' = steps + 1
    /\ UNCHANGED <<alloc, name, parent_node, children, diameter, classes,
                   components, proximal_offset, root_segment, classVars>>

(***************************************************************************)
(* Adding and removing children                                            *)
(***************************************************************************)
\* the elements a `for x in lst: lst.remove(x)' loop leaves in lst: the
\* iterator steps to the next index of the list as it is after each removal,
\* so every second element is passed over
RECURSIVE skipped_by_removal(_)
skipped_by_removal(cs) ==
    IF Len(cs) < 2 THEN <<>>
    ELSE <<cs[2]>> \o skipped_by_removal(SubSeq(cs, 3, Len(cs)))

\* SegmentModel.remove_children (lines 725-728)
remove_children(t, s) ==
    LET kept == skipped_by_removal(t.children[s])
        removed == Range(t.children[s]) \ Range(kept)
    IN  [t EXCEPT !.parent_node = Tabulate([i \in Ids |-> IF i \in removed THEN NoNode ELSE @[i]]),
                  !.children[s] = kept]

RemoveChildren(s) ==
    /\ UNCHANGED source
    /\ steps < MaxOps
    /\ s \in Range(segments)
    /\ children[s] # <<>>
    /\ SetTree(remove_children(Tree, s))
    /\ UNCHANGED <<root_segment, classVars>>
    /\ last' = [op |-> "remove_children", segment |-> s]
    /\ steps' = steps + 1

\* STree2.add_node_with_parent(node, parent): node.set_parent_node(parent) and
\* parent.add_child(node)
add_node_with_parent(t, node, par) ==
    [t EXCEPT !.parent_node[node] = par,
              !.children = IF par \in Ids
                           THEN [@ EXCEPT ![par] = Append(@, node)] ELSE @]

\* a new SegmentModel one unit beyond the distal point of par, added to par
\* (SegmentModel.__init__, lines 499-504, then add_node_with_parent)
AddSegment(par) ==
    /\ UNCHANGED source
    /\ steps < MaxOps
    /\ par \in Range(segments)
    /\ Ids \ alloc # {}
    /\ LET node == NewId(Tree)
           t1 == [Tree EXCEPT !.alloc = @ \cup {node},
                              !.name[node] = <<node>>,
                              !.distal[node] = RAdd(distal[par], RInt(1)),
                              !.diameter[node] = RInt(1),
                              !.components[node] = <<>>,
                              !.parent_node[node] = NoNode,
                              !.children[node] = <<>>]
       IN  SetTree(add_node_with_parent(t1, node, par))
    /\ UNCHANGED <<root_segment, classVars>>
    /\ last' = [op |-> "add_node_with_parent", segment |-> par]
    /\ steps' = steps + 1

(***************************************************************************)
(* Model.d_lambda_rule (lines 435-464)                                     *)
(***************************************************************************)
\* numpy.pi, to the accuracy a comparison between small rationals needs
Pi == Rat(355, 113)

\* a ratio that grows with d_lambda
d_lambda_ratio2_coarser(len, diam, Ra, cm, freq, d_lambda) ==
    LET u == RDiv(RMul(len, d_lambda), RInt(1000))
        w == RDiv(RMul(RInt(4), RMul(freq, RMul(Ra, cm))), diam)
    IN  RMul(RMul(RMul(u, w), u), Pi)

\* (length / (d_lambda * lambda_f)) ** 2, where
\* lambda_f = 1e5 * sqrt(diameter / (4 * pi * freq * Ra * cm))
d_lambda_ratio2(len, diam, Ra, cm, freq, d_lambda) ==
    LET u == RDiv(len, RMul(d_lambda, RInt(100000)))
        w == RDiv(RMul(RInt(4), RMul(freq, RMul(Ra, cm))), diam)
    IN  RMul(RMul(RMul(u, w), u), Pi)

\* int((x + 0.9) / 2) for the x >= 0 whose square is x2: the largest k with
\* 2 k - 0.9 <= x
RECURSIVE d_lambda_half(_, _)
d_lambda_half(x2, k) ==
    LET c == Rat(20 * (k + 1) - 9, 10)
    IN  IF RLe(RInt(1), RDiv(RDiv(x2, c), c)) THEN d_lambda_half(x2, k + 1) ELSE k

\* a count that is not made odd
d_lambda_rule_even(len, diam, Ra, cm, freq, d_lambda) ==
    d_lambda_half(d_lambda_ratio2(len, diam, Ra, cm, freq, d_lambda), 0) * 2

\* int((length / (d_lambda * lambda_f) + 0.9) / 2) * 2 + 1
d_lambda_rule(len, diam, Ra, cm, freq, d_lambda) ==
    LET x2 == d_lambda_ratio2(len, diam, Ra, cm, freq, d_lambda)
    IN  CASE Computed(x2) -> d_lambda_half(x2, 0) * 2 + 1

\* the default freq, and the values of d_lambda the model passes
DefaultFreq == RInt(100)
DLambdas == {Rat(1, 10), Rat(1, 100)}

\* the arguments of a call of d_lambda_rule: a non-negative length (um), and
\* a positive diameter (um), Ra (ohm.cm) and cm (uF/cm^2)
Lengths == {RInt(5 * k) : k \in 0..MaxLengthSteps}
Diameters == {RInt(1), RInt(2), RInt(4)}
AxialResistances == {RInt(100), RInt(200)}
Capacitances == {RInt(1), RInt(2)}

\* n = Model.d_lambda_rule(length, diameter, Ra, cm, freq, d_lambda)
DLambdaRule(len, diam, Ra, cm, freq, d_lambda) ==
    /\ UNCHANGED source
    /\ last' = [op |-> "d_lambda_rule", length |-> len, diameter |-> diam,
                Ra |-> Ra, cm |-> cm, freq |-> freq, d_lambda |-> d_lambda,
                n |-> d_lambda_rule(len, diam, Ra, cm, freq, d_lambda)]
    /\ UNCHANGED <<treeVars, classVars, steps>>

(***************************************************************************)
(* Model.get_segment (lines 295-301)                                       *)
(***************************************************************************)
get_segment_match(t, root, nm) ==
    SelectSeq(segments_of(t.children, root), LAMBDA seg : t.name[seg] = nm)

(***************************************************************************)
(* Model.normalise_spatial_sampling (lines 305-433)                        *)
(***************************************************************************)
FreeIds(t) == SortedSeq(Ids \ t.alloc)

\* the position of x in the list xs
IndexOf(xs, x) == CHOOSE k \in 1..Len(xs) : xs[k] = x

\* deepcopy(self.root_segment) followed by new_root.remove_children() and
\* set_root_segment(new_root) (lines 325-330).  The deep copy takes the whole
\* tree below the root segment; `olds' are the segments whose copies are still
\* linked to the copy of the root when remove_children has run.
kept_copies(t, root) ==
    LET kept == skipped_by_removal(t.children[root])
    IN  <<root>> \o Flatten([k \in 1..Len(kept) |->
                                <<kept[k]>> \o all_children(t.children, kept[k])])

new_root_tree(t, root) ==
    LET olds == kept_copies(t, root)
        free == FreeIds(t)
        copy(o) == free[IndexOf(olds, o)]
        src(c) == olds[IndexOf(free, c)]
        news == {free[k] : k \in 1..Len(olds)}
        kept == skipped_by_removal(t.children[root])
        copied(f) == Tabulate([c \in Ids |-> IF c \in news THEN f[src(c)] ELSE f[c]])
    IN  [alloc |-> t.alloc \cup news,
         name |-> copied(t.name),
         parent_node |->
            Tabulate([c \in Ids |->
                        IF c \in news
                        THEN (IF src(c) = root THEN RootNode
                              ELSE copy(t.parent_node[src(c)]))
                        ELSE t.parent_node[c]]),
         children |->
            Tabulate([c \in Ids |->
                        IF c \in news
                        THEN (IF src(c) = root
                              THEN [k \in 1..Len(kept) |-> copy(kept[k])]
                              ELSE [k \in 1..Len(t.children[src(c)])
                                      |-> copy(t.children[src(c)][k])])
                        ELSE t.children[c]]),
         distal |-> copied(t.distal),
         diameter |-> copied(t.diameter),
         classes |-> copied(t.classes),
         components |-> copied(t.components),
         proximal_offset |-> copied(t.proximal_offset)]

\* lines 343-357: the branch length and the length-weighted averages
branch_length(t, branch) ==
    RSum([k \in 1..Len(branch) |-> t_length(t, branch[k])])

weighted_average(t, branch, values) ==
    RDiv(RSum([k \in 1..Len(branch) |->
                  RMul(values[branch[k]], t_length(t, branch[k]))]),
         branch_length(t, branch))

\* the exception seg.Ra or seg.cm raises for some segment of the branch, if any
missing_property(t, branch) ==
    LET n(seg, type) == Len(components_by_type(t.components[seg], type))
        types == {"AxialResistanceModel", "MembraneCapacitanceModel"}
    IN  IF \E k \in 1..Len(branch), ty \in types : n(branch[k], ty) >= 2
        THEN "AssertionError"
        ELSE IF \E k \in 1..Len(branch), ty \in types : n(branch[k], ty) = 0
        THEN "AttributeError"
        ELSE ""

static_value(t, seg, type) == components_by_type(t.components[seg], type)[1].value

\* lines 367-376
new_seg_names(t, branch, num_segments) ==
    LET first == t.name[branch[1]]
        final == t.name[branch[Len(branch)]]
    IN  (IF num_segments > 1 THEN <<first>> ELSE <<>>)
          \o [k \in 1..IF num_segments >= 2 THEN num_segments - 2 ELSE 0
                |-> first \o final \o <<k>>]
          \o <<final>>

\* lines 414-416: the components of a new segment, set one by one
RECURSIVE set_components(_, _)
set_components(r, comps) ==
    IF comps = <<>> \/ r.raised # "" THEN r
    ELSE set_components(set_component(r.components, Head(comps), FALSE), Tail(comps))

new_segment_components(comps, new_Ra_comp) ==
    LET r == set_components([components |-> <<>>, raised |-> ""], comps)
    IN  IF r.raised # "" THEN r ELSE set_component(r.components, new_Ra_comp, TRUE)

\* SNode2.is_leaf(): the segment has no children
is_leaf(t, seg) == t.children[seg] = <<>>

\* BranchAncestry.SubBranch (lines 954-958)
SubBranch(start_name, end_name) == [start_name |-> start_name, end_name |-> end_name]

\* BranchAncestry.record_replacement(new_branch, old_branch) (lines 976-983) on
\* the ledger `history', a function from names to sub-branches.  In the first
\* case SubBranch is built with its default end_segment=None and reads
\* None.name (line 958).
record_replacement(t, history, new_branch, old_branch) ==
    LET old_end == old_branch[Len(old_branch)]
        new_end == new_branch[Len(new_branch)]
        key == t.name[new_branch[1]]
        sub_branch == SubBranch(t.name[old_branch[1]], t.name[old_end])
    IN  IF is_leaf(t, old_end)
        THEN IF ~is_leaf(t, new_end)
             THEN [history |-> history, raised |-> "AssertionError"]
             ELSE [history |-> history, raised |-> "AttributeError"]
        ELSE IF is_leaf(t, new_end)
             THEN [history |-> history, raised |-> "AssertionError"]
             ELSE [history |-> [nm \in DOMAIN history \cup {key} |->
                                  IF nm = key THEN sub_branch ELSE history[nm]],
                   raised |-> ""]

\* BranchAncestry.get_original (lines 985-989): the `while seg_name in
\* self.history' loop, followed for at most `hops' rounds; `terminated' tells
\* whether the loop was left
RECURSIVE get_original(_, _, _)
get_original(history, seg_name, hops) ==
    IF seg_name \notin DOMAIN history
    THEN [seg_name |-> seg_name, terminated |-> TRUE]
    ELSE IF hops = 0 THEN [seg_name |-> seg_name, terminated |-> FALSE]
    ELSE get_original(history, history[seg_name].start_name, hops - 1)

\* lines 409-427: the chain of new segments, appended one after the other to
\* previous_segment; ns = [t, status, new_root, Ra_to_tune, processed, chains,
\* ancestry, history]
RECURSIVE add_chain(_, _, _, _, _, _)
add_chain(ns, c, names, k, previous_segment, par) ==
    IF k > Len(names) \/ ns.status # "ok" THEN ns
    ELSE IF ns.t.alloc = Ids THEN [ns EXCEPT !.status = "arena"]
    ELSE LET segment == NewId(ns.t)
             comps == new_segment_components(c.components, c.new_Ra_comp)
             t1 == [ns.t EXCEPT
                      !.alloc = @ \cup {segment},
                      !.name[segment] = names[k],
                      !.distal[segment] = RAdd(c.start, RMul(c.seg_disp, RInt(k))),
                      !.diameter[segment] = c.diameter,
                      !.classes[segment] = {},
                      !.components[segment] = comps.components,
                      !.children[segment] = <<>>,
                      !.proximal_offset[segment] =
                          IF previous_segment = par /\ c.proximal_offset # RZero
                          THEN c.proximal_offset ELSE RZero]
             \* previous_segment.add_child(segment); segment.set_parent_node(...)
             t2 == [t1 EXCEPT !.children[previous_segment] = Append(@, segment),
                              !.parent_node[segment] = previous_segment]
         IN  IF comps.raised # ""
             THEN [ns EXCEPT !.status = comps.raised]
             ELSE add_chain([ns EXCEPT !.t = t2], c, names, k + 1, segment, par)

\* lines 343-357: the length of the branch and the averages over it
branch_averages(t, branch) ==
    [length |-> branch_length(t, branch),
     diameter |-> weighted_average(t, branch, t.diameter),
     Ra |-> weighted_average(t, branch,
                [seg \in Range(branch) |->
                    static_value(t, seg, "AxialResistanceModel")]),
     cm |-> weighted_average(t, branch,
                [seg \in Range(branch) |->
                    static_value(t, seg, "MembraneCapacitanceModel")])]

\* lines 428-432, once the chain is in the new tree (ns2): the record in the
\* ledger (`if ancestry:', with the new chain and the branch it replaces) and
\* parent.remove_child(branch[0]), on the tree being iterated over
detach_branch(ns, ns2, branch, par) ==
    CASE Computed(ns2) ->
    IF ns2.status # "ok" THEN ns2
    ELSE LET chain == SortedSeq(ns2.t.alloc \ ns.t.alloc)
             rec == IF ns.ancestry
                    THEN record_replacement(ns2.t, ns.history, chain, branch)
                    ELSE [history |-> ns.history, raised |-> ""]
         IN  CASE Computed(rec) ->
             IF rec.raised # ""
             THEN [ns2 EXCEPT !.status = rec.raised, !.chains = Append(@, chain)]
             ELSE [ns2 EXCEPT !.t.children[par] = RemoveFirst(@, branch[1]),
                              !.history = rec.history,
                              !.chains = Append(@, chain)]

\* lines 385-387: the set of the axial resistance components of the branch
Ra_set(t, branch) ==
    {components_by_type(t.components[branch[k]], "AxialResistanceModel")[1] :
        k \in 1..Len(branch)}

\* a variant that takes the component of the first segment, whatever the
\* other segments have
new_Ra_comp_of_first(t, branch, Ra) ==
    components_by_type(t.components[branch[1]], "AxialResistanceModel")[1]

\* lines 390-406: the axial resistance component of the new segments
new_Ra_comp(t, branch, Ra) ==
    IF Cardinality(Ra_set(t, branch)) > 1
    THEN [AxialResistanceModel(t.name[branch[1]] \o t.name[branch[Len(branch)]]
                                 \o <<"Ra">>, Ra)
            EXCEPT !.needs_tuning = \E ra \in Ra_set(t, branch) : ra.needs_tuning]
    ELSE CHOOSE ra \in Ra_set(t, branch) : TRUE

\* lines 397-403: the set Ra_to_tune after the branch
retuned(Ra_to_tune, replaced, new_comp) ==
    IF Cardinality(replaced) > 1 /\ \E ra \in replaced : ra.needs_tuning
    THEN (Ra_to_tune \ replaced) \cup {new_comp}
    ELSE Ra_to_tune

\* lines 367-427 for a branch of averages avg, re-sampled into num_segments
\* segments below previous_segment, the segment of the new tree that is named
\* as the parent par of the branch
replace_branch(ns, branch, par, previous_segment, avg, num_segments) ==
    LET t == ns.t
        first == branch[1]
        final == branch[Len(branch)]
        start == proximal(t.parent_node, t.distal, t.proximal_offset, first)
        direction == RSub(t.distal[final], start)
        dsp == RMul(direction, RDiv(avg.length, RAbs(direction)))
        c == [components |-> dynamic_components(t.components[first]),
              new_Ra_comp |-> new_Ra_comp(t, branch, avg.Ra), start |-> start,
              seg_disp |-> RDiv(dsp, RInt(num_segments)), diameter |-> avg.diameter,
              proximal_offset |-> t.proximal_offset[first]]
    IN  CASE Computed(avg) /\ Computed(num_segments) /\ Computed(c) ->
        detach_branch(ns,
                      add_chain([ns EXCEPT
                                   !.Ra_to_tune = retuned(@, Ra_set(t, branch),
                                                          c.new_Ra_comp),
                                   !.processed = Append(@, branch)],
                                c, new_seg_names(t, branch, num_segments), 1,
                                previous_segment, par),
                      branch, par)

\* lines 358-366: the number of segments the d_lambda rule gives the branch
resample_branch(ns, branch, par, previous_segment, avg, freq, d_lambda) ==
    CASE Computed(avg) ->
    replace_branch(ns, branch, par, previous_segment, avg,
                   d_lambda_rule(avg.length, avg.diameter, avg.Ra, avg.cm,
                                 freq, d_lambda))

\* the body of the loop over the branches (lines 338-432) for one branch
normalise_branch(ns, branch, freq, d_lambda) ==
    LET t == ns.t
        par == parent(t.parent_node, branch[1])
        match == get_segment_match(t, ns.new_root, t.name[par])
        missing == missing_property(t, branch)
    IN  IF par = NoNode THEN ns
        ELSE CASE Computed(missing) /\ Computed(match) ->
             IF missing # "" THEN [ns EXCEPT !.status = missing]
             ELSE IF Len(match) > 1 THEN [ns EXCEPT !.status = "AssertionError"]
             ELSE IF match = <<>> THEN [ns EXCEPT !.status = "KeyError"]
             ELSE resample_branch(ns, branch, par, match[1],
                                  branch_averages(t, branch), freq, d_lambda)

\* `for branch in self.branches': the generator of sub_branches runs on the
\* tree while the loop body takes branches out of it.  normalise_from is the
\* generator started at seg, normalise_children its `for child in seg.children'
\* at index k of the list as it is then.
RECURSIVE normalise_from(_, _, _, _)
RECURSIVE normalise_children(_, _, _, _, _)
normalise_children(ns, seg, k, freq, d_lambda) ==
    IF ns.status # "ok" \/ k > Len(ns.t.children[seg]) THEN ns
    ELSE normalise_children(
             normalise_from(ns, ns.t.children[seg][k], freq, d_lambda),
             seg, k + 1, freq, d_lambda)

normalise_from(ns, seg, freq, d_lambda) ==
    LET branch == branch_from(ns.t.children, seg)
    IN  normalise_children(normalise_branch(ns, branch, freq, d_lambda),
                           branch[Len(branch)], 1, freq, d_lambda)

\* `ancestry' tells whether a BranchAncestry ledger is passed (None otherwise);
\* the ledger of the caller is new, its history empty (lines 960-963)
normalise_spatial_sampling(t, root, ancestry, Ra_to_tune, freq, d_lambda) ==
    IF Len(FreeIds(t)) < Len(kept_copies(t, root))
    THEN [t |-> t, status |-> "arena", new_root |-> root,
          Ra_to_tune |-> Ra_to_tune, processed |-> <<>>, chains |-> <<>>,
          ancestry |-> ancestry, history |-> <<>>]
    ELSE normalise_from([t |-> new_root_tree(t, root), status |-> "ok",
                         new_root |-> FreeIds(t)[1],
                         Ra_to_tune |-> Ra_to_tune, processed |-> <<>>,
                         chains |-> <<>>, ancestry |-> ancestry,
                         history |-> <<>>],
                        root, freq, d_lambda)

\* normalised_tree, ancestry, Ra_to_tune = model.normalise_spatial_sampling(
\* d_lambda=d_lambda); the caller goes on with the tree returned.  When the
\* call raises, the new tree is lost and the old one stays as the loop left it.
returned_tree(ns, ancestry, d_lambda) ==
    /\ ns.status # "arena"
    /\ IF ns.status = "ok"
       THEN /\ SetTree(ns.t)
            /\ root_segment' = ns.new_root
       ELSE /\ children' = Tabulate([i \in Ids |-> IF i \in alloc
                                                   THEN ns.t.children[i]
                                                   ELSE children[i]])
            /\ UNCHANGED <<alloc, name, parent_node, distal, diameter,
                           classes, components, proximal_offset,
                           root_segment>>
    /\ last' = [op |-> "normalise_spatial_sampling", raised |-> ns.status,
                processed |-> ns.processed, Ra_to_tune |-> ns.Ra_to_tune,
                chains |-> ns.chains, d_lambda |-> d_lambda,
                ancestry |-> ancestry, history |-> ns.history]

NormaliseSpatialSampling(ancestry, Ra_to_tune, d_lambda) ==
    /\ steps < MaxOps
    /\ UNCHANGED source    \* Model(self.name, self._source), line 320
    /\ returned_tree(normalise_spatial_sampling(Tree, root_segment, ancestry,
                                                Ra_to_tune, DefaultFreq, d_lambda),
                     ancestry, d_lambda)
    /\ steps' = steps + 1
    /\ UNCHANGED classVars

(***************************************************************************)
(* Model.to_9ml and Model.from_9ml (lines 92-156, 215-222, 485-528)        *)
(***************************************************************************)
\* SNode2.get_index() of a segment.  SegmentModel.__init__ constructs the node
\* with index None (line 499) and only the root segment is given an index, 3
\* (lines 109, 189).  An index is written as a name: <<3>>, and <<>> for None.
get_index(root, s) == IF s = root THEN <<3>> ELSE <<>>

\* SegmentModel.to_9ml (lines 513-528): Segment9ml(self.get_index(), distal,
\* proximal, parent); `parent' is <<>> for None
SegmentModel_to_9ml(t, root, s) ==
    [name |-> get_index(root, s),
     distal |-> t.distal[s],
     diameter |-> t.diameter[s],
     proximal |-> IF parent(t.parent_node, s) = NoNode THEN <<RootPoint>> ELSE <<>>,
     parent |-> IF parent(t.parent_node, s) = NoNode THEN <<>>
                ELSE <<[segment_name |-> get_index(root, parent(t.parent_node, s)),
                        fraction_along |-> 1]>>]

\* Model.to_9ml (lines 215-222): the dictionary from seg.name to seg.to_9ml()
\* (the last segment of a name stays), and no segment class
Model_to_9ml(t, root) ==
    LET segs == segments_of(t.children, root)
        final(nm) == segs[IMax({k \in 1..Len(segs) : t.name[segs[k]] = nm})]
    IN  [segments |-> [nm \in {t.name[seg] : seg \in Range(segs)} |->
                          SegmentModel_to_9ml(t, root, final(nm))],
         classifications |-> {}]

\* a tree without any node
NoTree ==
    [alloc |-> {}, name |-> [i \in Ids |-> <<>>],
     parent_node |-> [i \in Ids |-> NoNode], children |-> [i \in Ids |-> <<>>],
     distal |-> [i \in Ids |-> RZero], diameter |-> [i \in Ids |-> RZero],
     classes |-> [i \in Ids |-> {}], components |-> [i \in Ids |-> <<>>],
     proximal_offset |-> [i \in Ids |-> RZero]]

\* SegmentModel.from_9ml (lines 485-497) as node `seg' of t
SegmentModel_from_9ml(t, seg, seg_9ml) ==
    [t EXCEPT !.alloc = @ \cup {seg},
              !.name[seg] = seg_9ml.name,
              !.distal[seg] = seg_9ml.distal,
              !.diameter[seg] = seg_9ml.diameter]

\* lines 112-115: a segment for every entry but the root segment's, in the
\* order the dictionary gives its values; r = [t, seg_lookup]
RECURSIVE create_segments(_, _, _)
create_segments(r, m9, order) ==
    IF order = <<>> THEN r
    ELSE LET seg_9ml == m9.segments[Head(order)]
             seg == NewId(r.t)
         IN  create_segments(
                 [t |-> SegmentModel_from_9ml(r.t, seg, seg_9ml),
                  seg_lookup |-> [nm \in DOMAIN r.seg_lookup \cup {seg_9ml.name} |->
                                     IF nm = seg_9ml.name THEN seg
                                     ELSE r.seg_lookup[nm]]],
                 m9, Tail(order))

\* lines 116-121: every entry but the root segment's is linked to its parent,
\* both found by name in seg_lookup
RECURSIVE link_segments(_, _, _)
link_segments(r, m9, order) ==
    IF order = <<>> \/ r.raised # "" THEN r
    ELSE LET seg_9ml == m9.segments[Head(order)]
             parent_name == seg_9ml.parent[1].segment_name
         IN  IF parent_name \notin DOMAIN r.seg_lookup
             THEN [r EXCEPT !.raised = "KeyError"]
             ELSE link_segments(
                      [r EXCEPT !.t = add_node_with_parent(
                                          @, r.seg_lookup[seg_9ml.name],
                                          r.seg_lookup[parent_name])],
                      m9, Tail(order))

\* Model.from_9ml (lines 92-156) of a morphology whose entries other than the
\* root segment's come in the order `order'.  to_9ml writes a fraction_along
\* of 1.0 everywhere, so no proximal offset is made of it (lines 122-127);
\* the segments of seg_lookup get the default components (lines 133-139).
Model_from_9ml(m9, order) ==
    LET root_key == CHOOSE k \in DOMAIN m9.segments : m9.segments[k].parent = <<>>
        root_9ml == m9.segments[root_key]
        t0 == SegmentModel_from_9ml(NoTree, 1, root_9ml)
        t1 == add_node_with_parent(t0, 1, RootNode)
        created == create_segments(
                       [t |-> t1, seg_lookup |-> [nm \in {root_9ml.name} |-> 1]],
                       m9, order)
        linked == link_segments(created @@ [raised |-> ""], m9, order)
        looked_up == {linked.seg_lookup[nm] : nm \in DOMAIN linked.seg_lookup}
    IN  [t |-> [linked.t EXCEPT
                  !.components = Tabulate([i \in Ids |->
                                     IF i \in looked_up THEN default_components
                                     ELSE <<>>])],
         root_segment |-> 1,
         raised |-> linked.raised]

\* the orders a dictionary may give the elements of S in
Orders(S) ==
    {o \in [1..Cardinality(S) -> S] : \A i, j \in 1..Cardinality(S) :
                                         i # j => o[i] # o[j]}

\* model = Model.from_9ml(model.to_9ml()): the morphology exported is read
\* back, with the biophysics of the model
ExportImport ==
    /\ steps = 0
    /\ LET m9 == Model_to_9ml(Tree, root_segment)
           others == {k \in DOMAIN m9.segments : m9.segments[k].parent # <<>>}
       IN  \E order \in Orders(others) :
              LET r == Model_from_9ml(m9, order)
              IN  /\ SetTree(r.t)
                  /\ root_segment' = r.root_segment
                  /\ last' = [op |-> "from_9ml", raised |-> r.raised,
                              exported |-> m9]
    \* cls(morph9ml.name, source=nineml_model), line 98: the object read
    /\ source' = [source EXCEPT !.model = NewSource(source)]
    /\ steps' = steps + 1
    /\ UNCHANGED classVars

(***************************************************************************)
(* Setting and removing the components of a segment                        *)
(***************************************************************************)
\* the components passed to set_component and remove_component: two ion
\* channels of one class name, a synapse, a synapse of the ion channels' class
\* name, and the default capacitance
Components ==
    {IonChannelModel(<<"soma_leak">>, "Lkg"),
     IonChannelModel(<<"dend_leak">>, "Lkg"),
     SynapseModel(<<"ampa">>, "AMPA"),
     SynapseModel(<<"leak_syn">>, "Lkg"),
     MembraneCapacitanceModel(<<"cm_default">>, RInt(1))}

\* segment.set_component(comp, overwrite)
SetComponent(s, comp, overwrite) ==
    /\ UNCHANGED source
    /\ s \in Range(segments)
    /\ LET r == set_component(components[s], comp, overwrite)
       IN  /\ Len(r.components) <= MaxComponents
           /\ components' = [components EXCEPT ![s] = r.components]
           /\ last' = [op |-> "set_component", raised |-> r.raised]
    /\ UNCHANGED <<alloc, name, parent_node, children, distal, diameter, classes,
                   proximal_offset, root_segment, classVars, steps>>

\* segment.remove_component(comp)
RemoveComponent(s, comp) ==
    /\ UNCHANGED source
    /\ s \in Range(segments)
    /\ LET r == remove_component(components[s], comp)
       IN  /\ components' = [components EXCEPT ![s] = r.components]
           /\ last' = [op |-> "remove_component", raised |-> r.raised]
    /\ UNCHANGED <<alloc, name, parent_node, children, distal, diameter, classes,
                   proximal_offset, root_segment, classVars, steps>>

(***************************************************************************)
(* Reading the tree: sub_branches, branch_depth, path_to_ancestor          *)
(***************************************************************************)
\* list(segment.sub_branches)
SubBranches(s) ==
    /\ s \in Range(segments)
    /\ last' = [op |-> "sub_branches", segment |-> s,
                branches |-> sub_branches(children, s)]
    /\ UNCHANGED <<treeVars, classVars, source, steps>>

\* segment.branch_depth
BranchDepth(s) ==
    /\ s \in Range(segments)
    /\ last' = [op |-> "branch_depth", segment |-> s,
                depth |-> branch_depth(parent_node, children, s)]
    /\ UNCHANGED <<treeVars, classVars, source, steps>>

\* list(segment.path_to_ancestor(ancestor))
PathToAncestor(s, ancestor) ==
    /\ s \in Range(segments)
    /\ ancestor \in Range(segments)
    /\ last' = path_to_ancestor(parent_node, s, ancestor)
                  @@ [op |-> "path_to_ancestor", segment |-> s,
                      ancestor |-> ancestor]
    /\ UNCHANGED <<treeVars, classVars, source, steps>>

(***************************************************************************)
(* The source of a model (lines 36-59, 170-173, 199-213, 466-481)          *)
(***************************************************************************)
\* a copy of the source object
Model_deepcopy_source_copied(src) ==
    CHOOSE id \in SourceIds : id # src

\* Model.__deepcopy__ (lines 199-213): the _source of the copy of a model
\* whose _source is src.  Every other attribute is copied deeply.
Model_deepcopy_source(src) == src

\* the leak_components a passive model is asked for
LeakComponents == {{}, {"Lkg"}}

\* passive_model (lines 476-480) on the list of components of one segment:
\* `for comp in seg.components' steps through the list by index while
\* remove_component takes elements out of that very list
RECURSIVE passive_components(_, _, _)
passive_components(cs, i, leak_components) ==
    IF i > Len(cs) THEN cs
    ELSE IF IsDynamic(cs[i]) /\ cs[i].class_name \notin leak_components
    THEN passive_components(remove_component(cs, cs[i]).components, i + 1,
                            leak_components)
    ELSE passive_components(cs, i + 1, leak_components)

\* cls.copy_of_default_model() (lines 57-59), while the model at hand still is
\* the default model
CopyOfDefaultModel ==
    /\ last.op = "init"
    /\ source' = [source EXCEPT
                     !.model = Model_deepcopy_source(source.default_model)]
    /\ last' = [op |-> "copy_of_default_model"]
    /\ UNCHANGED <<treeVars, classVars, steps>>

\* model = deepcopy(model)
DeepCopy ==
    /\ source' = [source EXCEPT !.model = Model_deepcopy_source(source.model)]
    /\ last' = [op |-> "deepcopy"]
    /\ UNCHANGED <<treeVars, classVars, steps>>

\* model = model.passive_model(leak_components) (lines 466-481)
PassiveModel(leak_components) ==
    /\ source' = [source EXCEPT !.model = Model_deepcopy_source(source.model)]
    /\ components' = Tabulate([seg \in Ids |->
                          IF seg \in Range(segments)
                          THEN passive_components(components[seg], 1,
                                                  leak_components)
                          ELSE components[seg]])
    /\ last' = [op |-> "passive_model", leak_components |-> leak_components]
    /\ UNCHANGED <<alloc, name, parent_node, children, distal, diameter, classes,
                   proximal_offset, root_segment, classVars, steps>>

\* model = Model.from_9ml(nineml_model) for another nineml object that
\* describes the same cell (line 98: cls(morph9ml.name, source=nineml_model))
ModelFromOtherSource ==
    /\ source' = [source EXCEPT !.model = NewSource(source)]
    /\ last' = [op |-> "from_other_source"]
    /\ UNCHANGED <<treeVars, classVars, steps>>

\* NineCell(model) (lines 38-55): raises unless model._source is the _source
\* of the default model
NineCellInit ==
    /\ last' = [op |-> "NineCell",
                raised |-> IF source.model # source.default_model
                           THEN "Exception" ELSE ""]
    /\ UNCHANGED <<treeVars, classVars, source, steps>>

(***************************************************************************)
(* SegmentClass (morphology.py, lines 180-259)                             *)
(***************************************************************************)
\* the names of the attributes (properties) given to the classes
AttributeNames == {"n", "m"}

\* SegmentClass.members (lines 203-207): the segments of the tree, in the
\* order of Tree.segments, whose 'classes' holds the class c
members(cl, ch, root, c) ==
    SelectSeq(segments_of(ch, root), LAMBDA seg : c \in cl[seg])

\* seg.get_contents()['classes'].add(c): the set object of seg gains c, and
\* with it every segment that holds the same object
classes_add(cl, sh, seg, c) ==
    [i \in Ids |-> IF i = seg \/ {i, seg} \subseteq sh THEN cl[i] \cup {c}
                   ELSE cl[i]]

\* seg.get_contents()['classes'].remove(c)
classes_remove(cl, sh, seg, c) ==
    [i \in Ids |-> IF i = seg \/ {i, seg} \subseteq sh THEN cl[i] \ {c}
                   ELSE cl[i]]

NoConflict == [raised |-> "", class1 |-> "", class2 |-> ""]

\* SegmentClass._check_for_duplicate_attributes (lines 238-259) for class c:
\* the set of ways the call can end.  reduce(set.union, []) raises TypeError
\* when the class has no members; the two loops run over a set of objects,
\* whose order of iteration is arbitrary, so any clashing pair can be the one
\* the exception names.
check_for_duplicate_attributes(cl, attrs, ch, root, c) ==
    LET ms == members(cl, ch, root, c)
        overlapping_classes == UNION {cl[ms[k]] : k \in 1..Len(ms)}
        clashes == {pair \in overlapping_classes \X overlapping_classes :
                       /\ pair[1] # pair[2]
                       /\ attrs[pair[1]] \cap attrs[pair[2]] # {}}
    IN  IF ms = <<>> THEN {[NoConflict EXCEPT !.raised = "TypeError"]}
        ELSE IF clashes = {} THEN {NoConflict}
        ELSE {[raised |-> "attributes clash", class1 |-> pair[1],
               class2 |-> pair[2]] : pair \in clashes}

\* SegmentClass.add_attribute (lines 213-219): the attribute is stored, then
\* the check runs
AddAttribute(c, a) ==
    /\ UNCHANGED source
    /\ IF a \in attributes[c]
       THEN /\ UNCHANGED attributes
            /\ last' = [NoConflict EXCEPT !.raised = "already associated"]
                          @@ [op |-> "add_attribute", class |-> c]
       ELSE /\ attributes' = [attributes EXCEPT ![c] = @ \cup {a}]
            /\ \E outcome \in check_for_duplicate_attributes(
                                 classes, attributes', children, root_segment, c) :
                  last' = outcome @@ [op |-> "add_attribute", class |-> c]
    /\ UNCHANGED <<treeVars, shared, steps>>

\* SegmentClass.remove_attribute (lines 221-222): dict.pop raises KeyError
\* for a name that is not there
RemoveAttribute(c, a) ==
    /\ UNCHANGED source
    /\ attributes' = [attributes EXCEPT ![c] = @ \ {a}]
    /\ last' = [NoConflict EXCEPT !.raised = IF a \in attributes[c] THEN ""
                                             ELSE "KeyError"]
                  @@ [op |-> "remove_attribute", class |-> c]
    /\ UNCHANGED <<treeVars, shared, steps>>

\* the lists of segments passed to add_members and remove_members
SegLists ==
    {SortedSeq(S) : S \in {T \in SUBSET Range(segments) :
                              T # {} /\ Cardinality(T) <= 2}}

\* SegmentClass.add_members (lines 224-232): every segment is added, then the
\* check runs
RECURSIVE add_members(_, _, _, _)
add_members(cl, sh, segs, c) ==
    IF segs = <<>> THEN cl
    ELSE add_members(classes_add(cl, sh, Head(segs), c), sh, Tail(segs), c)

AddMembers(c, segs) ==
    /\ UNCHANGED source
    /\ classes' = Tabulate(add_members(classes, shared, segs, c))
    /\ \E outcome \in check_for_duplicate_attributes(
                          classes', attributes, children, root_segment, c) :
          last' = outcome @@ [op |-> "add_members", class |-> c]
    /\ UNCHANGED <<alloc, name, parent_node, children, distal, diameter,
                   components, proximal_offset, root_segment, classVars, steps>>

\* SegmentClass.remove_members (lines 234-236): set.remove raises KeyError at
\* the first segment that is not in the class, the segments before it having
\* left the class
RECURSIVE remove_members(_, _, _, _)
remove_members(cl, sh, segs, c) ==
    IF segs = <<>> THEN [classes |-> cl, raised |-> ""]
    ELSE IF c \notin cl[Head(segs)] THEN [classes |-> cl, raised |-> "KeyError"]
    ELSE remove_members(classes_remove(cl, sh, Head(segs), c), sh, Tail(segs), c)

RemoveMembers(c, segs) ==
    /\ UNCHANGED source
    /\ LET r == remove_members(classes, shared, segs, c)
       IN  /\ classes' = Tabulate(r.classes)
           /\ last' = [NoConflict EXCEPT !.raised = r.raised]
                         @@ [op |-> "remove_members", class |-> c]
    /\ UNCHANGED <<alloc, name, parent_node, children, distal, diameter,
                   components, proximal_offset, root_segment, classVars, steps>>

Next ==
    \/ \E only_most_distal \in BOOLEAN : MergeLeaves(only_most_distal)
    \/ \E s \in Ids : RemoveChildren(s)
    \/ \E s \in Ids : AddSegment(s)
    \/ \E d_lambda \in DLambdas : NormaliseSpatialSampling(FALSE, {}, d_lambda)

\* sequences of tree edits
Spec == Init /\ [][Next]_vars

NextMerge == \E only_most_distal \in BOOLEAN : MergeLeaves(only_most_distal)

\* merge_leaves, once or repeatedly, on any initial tree
SpecMerge == InitMerge /\ [][NextMerge]_vars

NextDistal ==
    \/ \E s \in Ids, dsp \in Displacements : SegmentSetDistal(s, dsp)
    \/ \E s \in Ids, dsp \in Displacements : SegmentModelSetDistal(s, dsp)
    \/ \E s \in Ids, len \in NewLengths : SegmentModelSetLength(s, len)

\* one assignment to `distal' or to `length' on any initial tree
SpecDistal == InitDistal /\ [][NextDistal]_vars

\* trees of segments constructed without classes, each with a set of its own
\* or all with the set of the default argument; the classes exist
\* (Tree.add_segment_class) and have no attribute yet
InitClasses ==
    /\ \E n \in 1..MaxClassSeg :
         /\ \E p \in Shapes(n) : InitTree(n, p, 1, [i \in 1..n |-> {}])
         /\ shared \in {{}, 1..n}
    /\ steps = 0
    /\ last = [op |-> "init"]

NextClasses ==
    \/ \E c \in ClassNames, a \in AttributeNames : AddAttribute(c, a)
    \/ \E c \in ClassNames, a \in AttributeNames : RemoveAttribute(c, a)
    \/ \E c \in ClassNames, segs \in SegLists : AddMembers(c, segs)
    \/ \E c \in ClassNames, segs \in SegLists : RemoveMembers(c, segs)

\* sequences of calls on the segment classes of a tree
SpecClasses == InitClasses /\ [][NextClasses]_vars

\* a segment with the default components
InitComponents ==
    /\ \E p \in Shapes(1) : InitTree(1, p, 1, [i \in 1..1 |-> {}])
    /\ shared = {}
    /\ steps = 0
    /\ last = [op |-> "init"]

NextComponents ==
    \/ \E s \in Ids, comp \in Components, overwrite \in BOOLEAN :
          SetComponent(s, comp, overwrite)
    \/ \E s \in Ids, comp \in Components : RemoveComponent(s, comp)

\* sequences of set_component and remove_component on a segment
SpecComponents == InitComponents /\ [][NextComponents]_vars

NextDLambda ==
    \E len \in Lengths, diam \in Diameters, Ra \in AxialResistances,
       cm \in Capacitances, d_lambda \in DLambdas :
       DLambdaRule(len, diam, Ra, cm, DefaultFreq, d_lambda)

\* calls of d_lambda_rule, one after the other, on any of the arguments
SpecDLambda == InitComponents /\ [][NextDLambda]_vars

\* the default model of a cell class: a tree with the default components
InitSource ==
    /\ \E n \in 1..MaxClassSeg :
         \E p \in Shapes(n) : InitTree(n, p, 1, [i \in 1..n |-> {}])
    /\ shared = {}
    /\ steps = 0
    /\ last = [op |-> "init"]

\* the components the root segment of the default model is given
SourceComponents ==
    {IonChannelModel(<<"soma_leak">>, "Lkg"), SynapseModel(<<"ampa">>, "AMPA")}

NextSource ==
    \/ CopyOfDefaultModel
    \/ DeepCopy
    \/ \E leak_components \in LeakComponents : PassiveModel(leak_components)
    \/ \E d_lambda \in DLambdas : NormaliseSpatialSampling(FALSE, {}, d_lambda)
    \/ ModelFromOtherSource
    \/ NineCellInit
    \/ \E comp \in SourceComponents :
          last.op \in {"init", "set_component"}
            /\ SetComponent(root_segment, comp, FALSE)

\* the ways a model is derived from the default model of a cell class, on a
\* tree whose root segment is given components first
SpecSource == InitSource /\ [][NextSource]_vars

NextTraversal ==
    \/ \E s \in Ids : SubBranches(s)
    \/ \E s \in Ids : BranchDepth(s)
    \/ \E s \in Ids, ancestor \in Ids : PathToAncestor(s, ancestor)

\* the traversals of any segment of any initial tree
SpecTraversal == InitDistal /\ [][NextTraversal]_vars

NextRoundTrip == ExportImport

\* an export to 9ml followed by an import, on any initial tree
SpecRoundTrip == InitMerge /\ [][NextRoundTrip]_vars

\* the proximal offset (um) given to a segment, and the axial resistances that
\* replace the default one on a segment
ProximalOffsets == {RInt(1)}

RaComponents ==
    {AxialResistanceModel(<<"Ra_axon">>, RInt(200)),
     [AxialResistanceModel(<<"Ra_tuned">>, RInt(200)) EXCEPT !.needs_tuning = TRUE]}

\* segment.proximal_offset = offset (lines 619-621)
SetProximalOffset(s, offset) ==
    /\ s \in Range(Tail(segments))
    /\ proximal_offset' = [proximal_offset EXCEPT ![s] = offset]
    /\ last' = [op |-> "proximal_offset", raised |-> ""]
    /\ UNCHANGED <<alloc, name, parent_node, children, distal, diameter, classes,
                   components, root_segment, classVars, source, steps>>

\* trees of the first geometry of up to MaxNormSeg segments
InitNormalise ==
    /\ \E n \in 1..MaxNormSeg :
         \E p \in Shapes(n) : InitTree(n, p, 1, [i \in 1..n |-> {}])
    /\ shared = {}
    /\ steps = 0
    /\ last = [op |-> "init"]

\* a morphology is prepared by at most one proximal offset and one axial
\* resistance of its own, and is then re-sampled: the first time with or
\* without a ledger of the full tree, the caller passing as Ra_to_tune the
\* components of the tree that need tuning, or none
NextNormalise ==
    \/ \E s \in Ids, offset \in ProximalOffsets :
          /\ steps = 0
          /\ \A i \in alloc : proximal_offset[i] = RZero
          /\ SetProximalOffset(s, offset)
    \/ \E s \in Ids, comp \in RaComponents :
          /\ steps = 0
          /\ s # root_segment
          /\ \A i \in alloc : components[i] = default_components
          /\ SetComponent(s, comp, TRUE)
    \/ \E ancestry \in BOOLEAN, d_lambda \in DLambdas,
          Ra_to_tune \in SUBSET {comp \in RaComponents :
                                    /\ comp.needs_tuning
                                    /\ \E seg \in Range(segments) :
                                          comp \in Range(components[seg])} :
          /\ ancestry => steps = 0
          /\ NormaliseSpatialSampling(ancestry, Ra_to_tune, d_lambda)

SpecNormalise == InitNormalise /\ [][NextNormalise]_vars

(***************************************************************************)
(* Claims                                                                  *)
(***************************************************************************)
\* a step of the model that is a call of merge_leaves
MergeStep == steps' = steps + 1 /\ last'.op = "merge_leaves"

\* the sum of diameter * length over the segments of a list of branches
SurfaceArea(pn, ds, off, dm, sibs) ==
    RSum([i \in 1..Len(Flatten(sibs)) |->
            RMul(dm[Flatten(sibs)[i]], length(pn, ds, off, Flatten(sibs)[i]))])

\* C1: after merge_leaves collapses a group of sibling branches, the new
\* segment's diameter * length equals the sum of diameter * length over all
\* the segments of all the merged branches, as they were before the call.
C1_MergeSurfaceArea ==
    [][MergeStep =>
         \A i \in 1..Len(last'.merged) :
            LET m == last'.merged[i]
            IN  RMul(diameter'[m.segment],
                     length(parent_node', distal', proximal_offset', m.segment))
                  = SurfaceArea(parent_node, distal, proximal_offset, diameter,
                                m.siblings)]_vars

\* C1 witness: a merge has collapsed a group of at least two branches, one of
\* them of more than one segment.
C1_Witness ==
    /\ last.op = "merge_leaves"
    /\ \E i \in 1..Len(last.merged) :
          /\ Len(last.merged[i].siblings) >= 2
          /\ \E j \in 1..Len(last.merged[i].siblings) :
                Len(last.merged[i].siblings[j]) >= 2

\* the tree of the scenario: the root segment (diameter 10) has three leaf
\* children of diameter 2 and length 5 in the same class
C2_Scenario ==
    /\ root_segment = 1
    /\ children[1] = <<2, 3, 4>>
    /\ diameter[1] = RInt(10)
    /\ \A c \in {2, 3, 4} :
          /\ children[c] = <<>>
          /\ parent_node[c] = 1
          /\ diameter[c] = RInt(2)
          /\ length(parent_node, distal, proximal_offset, c) = RInt(5)
          /\ classes[c] = classes[2]

\* C2: in the scenario tree merge_leaves leaves the root with exactly one
\* child, enumerated by `segments', whose diameter * length is 30, and the
\* three original children are no longer part of the tree.
C2_ScenarioMerge ==
    [][(C2_Scenario /\ MergeStep) =>
         /\ Len(children'[1]) = 1
         /\ children'[1][1] \in Range(segments')
         /\ RMul(diameter'[children'[1][1]],
                 length(parent_node', distal', proximal_offset', children'[1][1]))
              = RInt(30)
         /\ Range(segments') \cap {2, 3, 4} = {}]_vars

\* every branch that ends in a leaf holds a segment whose classes differ from
\* those of the first segment of the branch
EveryLeafBranchHeterogeneous ==
    \A i \in 1..Len(branches) :
        LET b == branches[i]
        IN  children[b[Len(b)]] = <<>>
              => \E j \in 1..Len(b) : classes[b[j]] # classes[b[1]]

\* C3: merge_leaves on a tree in which every leaf branch is heterogeneous in
\* class membership raises IrreducibleMorphologyException and changes nothing
\* (segments, links, geometry and class memberships are as before).
C3_IrreducibleNoMutation ==
    [][(EveryLeafBranchHeterogeneous /\ MergeStep) =>
         /\ last'.raised
         /\ UNCHANGED treeVars]_vars

\* C3 witness: merge_leaves has raised on such a tree.
C3_Witness ==
    /\ last.op = "merge_leaves"
    /\ last.raised
    /\ EveryLeafBranchHeterogeneous
    /\ Len(branches) >= 2

\* a step of the model that assigns to `distal' of a segment
DistalStep == steps' = steps + 1 /\ last'.op \in {"Segment.distal", "SegmentModel.distal"}

\* C4: setting `distal' on a segment S moves the distal point of every
\* descendant of S by exactly the displacement applied to S, once, so that
\* every descendant keeps its length, and S ends at the point assigned.
C4_DistalKeepsDescendantLengths ==
    [][DistalStep =>
         LET S == last'.segment
             dsp == RSub(last'.distal, distal[S])
         IN  /\ distal'[S] = last'.distal
             /\ \A D \in Range(all_children(children, S)) :
                   /\ distal'[D] = RAdd(distal[D], dsp)
                   /\ length(parent_node', distal', proximal_offset', D)
                        = length(parent_node, distal, proximal_offset, D)]_vars

\* the segments reachable from the segments of S through child links
RECURSIVE ReachableFrom(_, _)
ReachableFrom(ch, S) ==
    LET next == S \cup UNION {Range(ch[s]) : s \in S}
    IN  IF next = S THEN S ELSE ReachableFrom(ch, next)

\* C5: in every state reached by tree edits, `segments' enumerates exactly the
\* root segment and the segments reachable from it through child links, each
\* exactly once.
C5_SegmentsExact ==
    /\ Range(segments) = ReachableFrom(children, {root_segment})
    /\ NoDup(segments)

\* C5 witness: two edits, the last a re-sampling that went through, have left
\* a tree with segments below the children of the root segment.
C5_Witness ==
    /\ steps = 2
    /\ last.op = "normalise_spatial_sampling"
    /\ last.raised = "ok"
    /\ \E c \in Range(children[root_segment]) : children[c] # <<>>
    /\ Len(segments) >= 4

\* exactly one segment of the tree has no segment as its parent, following
\* the parent references from a segment of the tree ends at that segment, and
\* the child lists and the parent references of the segments constructed so far
\* say the same
RECURSIVE Ancestors(_, _, _)
Ancestors(pn, s, fuel) ==
    IF fuel = 0 \/ pn[s] \notin Ids THEN {} ELSE {pn[s]} \cup Ancestors(pn, pn[s], fuel - 1)

StrictRootedTree ==
    /\ Cardinality({s \in Range(segments) : parent_node[s] \notin Ids}) = 1
    /\ \A s \in Range(segments) : s \notin Ancestors(parent_node, s, MaxId)
    /\ \A p \in alloc, c \in alloc :
          (c \in Range(children[p])) <=> (parent_node[c] = p)

\* a step of the model that is one of the three operations
RestructureStep ==
    /\ steps' = steps + 1
    /\ last'.op \in {"merge_leaves", "normalise_spatial_sampling", "remove_children"}

\* C6: merge_leaves, normalise_spatial_sampling and remove_children leave a
\* strict rooted tree with consistent links: one segment without a segment
\* parent, no cycle, and c in the child list of p exactly when the parent
\* reference of c is p.
C6_StrictRootedTree ==
    [][(StrictRootedTree /\ RestructureStep) => StrictRootedTree']_vars

\* C7: whatever calls have been made on the segment classes, the classes of
\* a segment that belongs to two or more classes have pairwise disjoint sets
\* of property names.
C7_DisjointPropertyNames ==
    \A s \in Range(segments) : \A c1 \in classes[s], c2 \in classes[s] :
        c1 # c2 => attributes[c1] \cap attributes[c2] = {}

\* the classes c1 and c2 have a member segment in common
SharesMember(c1, c2) == \E s \in Range(segments) : {c1, c2} \subseteq classes[s]

\* C8: adding a property named a to a class c that shares a member with a
\* class holding a property of that name raises a conflict that names both
\* classes; adding a property that keeps the names of c disjoint from those of
\* every class c shares a member with succeeds, also when c has no members.
C8_ConflictOrSuccess ==
    [][\A c \in ClassNames, a \in AttributeNames :
          (a \notin attributes[c] /\ AddAttribute(c, a)) =>
             /\ \A c1 \in ClassNames \ {c} :
                   (SharesMember(c1, c) /\ a \in attributes[c1]) =>
                      /\ last'.raised = "attributes clash"
                      /\ {last'.class1, last'.class2} = {c1, c}
             /\ (\A c1 \in ClassNames \ {c} :
                    SharesMember(c1, c) =>
                       attributes[c1] \cap (attributes[c] \cup {a}) = {})
                  => last'.raised = ""]_vars

\* C9: when add_attribute ends with a conflict, the properties of the class
\* are what they were before the call.
C9_NoPartialMutation ==
    [][\A c \in ClassNames, a \in AttributeNames :
          (AddAttribute(c, a) /\ last'.raised = "attributes clash") =>
             attributes' = attributes]_vars

\* a segment holds at most one component that is not a point process for
\* each class name
OneDistributedPerClassName ==
    \A s \in Range(segments) : \A i, j \in 1..Len(components[s]) :
        (/\ i # j
         /\ ~IsPointProcess(components[s][i])
         /\ ~IsPointProcess(components[s][j]))
          => components[s][i].class_name # components[s][j].class_name

\* set_component of a point process appends it; set_component, without
\* overwrite, of another component whose class name is held already raises
\* and leaves the list as it was
ClashRaises ==
    \A s \in Ids, comp \in Components :
       /\ \A overwrite \in BOOLEAN :
             (IsPointProcess(comp) /\ SetComponent(s, comp, overwrite)) =>
                /\ last'.raised = ""
                /\ components'[s] = Append(components[s], comp)
       /\ (/\ ~IsPointProcess(comp)
           /\ \E i \in 1..Len(components[s]) :
                 components[s][i].class_name = comp.class_name
           /\ SetComponent(s, comp, FALSE)) =>
             /\ last'.raised # ""
             /\ components' = components

\* C10: across set_component and remove_component calls a segment holds at
\* most one non-point component per class name, point processes of one class
\* name can be held several times, and a clashing set_component without
\* overwrite raises and leaves the list of components unchanged.
C10_ComponentClash == []OneDistributedPerClassName /\ [][ClashRaises]_vars

\* C10 witness: a segment holds the same point process twice next to an ion
\* channel, and the last set_component raised on a clash.
C10_Witness ==
    /\ last.op = "set_component"
    /\ last.raised = "Exception"
    /\ \E s \in Range(segments) :
          /\ \E i, j \in 1..Len(components[s]) :
                /\ i # j
                /\ components[s][i] = components[s][j]
                /\ IsPointProcess(components[s][i])
          /\ \E i \in 1..Len(components[s]) :
                components[s][i].type = "IonChannelModel"

(***************************************************************************)
(* d_lambda_rule                                                           *)
(***************************************************************************)
\* C11: for a non-negative length and positive diameter, Ra, cm, freq and
\* d_lambda, d_lambda_rule returns a positive odd integer.
C11_PositiveOdd ==
    last.op = "d_lambda_rule" => (last.n >= 1 /\ last.n % 2 = 1)

\* C11 witness: d_lambda_rule has returned a count of 5 or more for a branch
\* section of positive length
C11_Witness ==
    /\ last.op = "d_lambda_rule"
    /\ last.n >= 5
    /\ last.length # RZero

\* the arguments of the second call are those of the first but for a length
\* that is not shorter and a d_lambda that is not larger
LongerOrFiner(a, b) ==
    /\ a.op = "d_lambda_rule" /\ b.op = "d_lambda_rule"
    /\ <<a.diameter, a.Ra, a.cm, a.freq>> = <<b.diameter, b.Ra, b.cm, b.freq>>
    /\ RLe(a.length, b.length)
    /\ RLe(b.d_lambda, a.d_lambda)

\* C12: d_lambda_rule is monotone, all other arguments fixed: the count for
\* (length1, d_lambda1) is never greater than the count for (length2,
\* d_lambda2) when length1 <= length2 and d_lambda1 >= d_lambda2.
C12_Monotone == [][LongerOrFiner(last, last') => last.n <= last'.n]_vars

\* C12 witness: a count above 1 that a call on a shorter length and a larger
\* d_lambda can be compared with
C12_Witness ==
    /\ last.op = "d_lambda_rule"
    /\ last.n >= 3
    /\ last.d_lambda = Rat(1, 100)
    /\ RLe(RInt(10), last.length)

\* C13: the count n returned by d_lambda_rule is large enough that no
\* compartment exceeds the d_lambda fraction of the AC length constant:
\* length / n <= d_lambda * lambda_f, that is (length / (d_lambda *
\* lambda_f)) ** 2 <= n ** 2.
C13_CompartmentWithinFraction ==
    last.op = "d_lambda_rule" =>
        RLe(d_lambda_ratio2(last.length, last.diameter, last.Ra, last.cm,
                            last.freq, last.d_lambda),
            RInt(last.n * last.n))

(***************************************************************************)
(* SegmentModel.length                                                     *)
(***************************************************************************)
\* a step of the model that assigns to `length' of a SegmentModel
LengthStep == steps' = steps + 1 /\ last'.op = "SegmentModel.length"

\* C14: for a segment whose proximal and distal points differ, setting
\* `length' to L and then reading `length' returns L, and the proximal point
\* of the segment is the same before and after.
C14_LengthSetThenGet ==
    [][LengthStep =>
         /\ length(parent_node', distal', proximal_offset', last'.segment)
               = last'.length
         /\ proximal(parent_node', distal', proximal_offset', last'.segment)
               = proximal(parent_node, distal, proximal_offset, last'.segment)]_vars

(***************************************************************************)
(* to_9ml and from_9ml                                                     *)
(***************************************************************************)
\* what a tree says of its segments: for every segment linked to the root
\* segment its name, distal point, diameter, classes and the name of its
\* parent (<<"root">> for the root segment)
Described(nm, pn, ch, ds, dm, cl, root) ==
    {[name |-> nm[seg], distal |-> ds[seg], diameter |-> dm[seg],
      classes |-> cl[seg],
      parent |-> IF parent(pn, seg) = NoNode THEN <<"root">>
                 ELSE <<nm[parent(pn, seg)]>>] :
        seg \in ReachableFrom(ch, {root})}

\* C15: exporting a tree with to_9ml and importing the result with from_9ml
\* yields a tree isomorphic to the original: the same segment names, the same
\* distal point and diameter for each name, the same parent for each non-root
\* segment and the same class memberships.
C15_RoundTrip ==
    [][last'.op = "from_9ml" =>
         Described(name', parent_node', children', distal', diameter',
                   classes', root_segment')
           = Described(name, parent_node, children, distal, diameter,
                       classes, root_segment)]_vars

(***************************************************************************)
(* The source of a model                                                   *)
(***************************************************************************)
\* C16: the source of a model is shared by identity and never copied.  The
\* model made by copy_of_default_model has the source object of the default
\* model; deepcopy, passive_model and normalise_spatial_sampling give a model
\* with the source object of the model they are applied to; NineCell accepts
\* a model whose source is the source object of the default model and raises
\* for a model whose source is another object.
C16_SourceByIdentity ==
    [][/\ last'.op = "copy_of_default_model" =>
            source'.model = source.default_model
       /\ last'.op \in {"deepcopy", "passive_model",
                        "normalise_spatial_sampling"} =>
            source'.model = source.model
       /\ last'.op = "NineCell" =>
            (last'.raised = "" <=> source.model = source.default_model)
       /\ source'.default_model = source.default_model]_vars

\* C16 witness: NineCell has accepted a model that went through
\* normalise_spatial_sampling and still has the source of the default model
C16_Witness ==
    /\ last.op = "NineCell"
    /\ last.raised = ""
    /\ steps >= 1
    /\ source.model = source.default_model

(***************************************************************************)
(* sub_branches, branch_depth, path_to_ancestor                            *)
(***************************************************************************)
\* the segments of the subtree of s
Subtree(s) == {s} \cup Range(all_children(children, s))

\* C17: for any segment S, sub_branches yields a finite sequence of branches
\* that partitions the subtree of S: every segment of the subtree is in
\* exactly one branch, within a branch every segment but the last has exactly
\* one child, the next segment, and the last segment of every branch is a
\* leaf or has two or more children.
C17_SubBranchesPartition ==
    last.op = "sub_branches" =>
        LET bs == last.branches
            places == {<<i, k>> \in (1..Len(bs)) \X (1..MaxId) : k <= Len(bs[i])}
        IN  /\ {bs[pl[1]][pl[2]] : pl \in places} = Subtree(last.segment)
            /\ \A p1, p2 \in places :
                  bs[p1[1]][p1[2]] = bs[p2[1]][p2[2]] => p1 = p2
            /\ \A i \in 1..Len(bs) :
                  /\ bs[i] # <<>>
                  /\ \A k \in 1..(Len(bs[i]) - 1) :
                        children[bs[i][k]] = <<bs[i][k + 1]>>
                  /\ Len(children[bs[i][Len(bs[i])]]) # 1

\* C17 witness: sub_branches of a segment has yielded three branches or more,
\* one of them of two segments or more
C17_Witness ==
    /\ last.op = "sub_branches"
    /\ Len(last.branches) >= 3
    /\ \E i \in 1..Len(last.branches) : Len(last.branches[i]) >= 2

\* C18: for every segment, branch_depth is the number of its ancestor
\* segments, the segment itself not counted, that have at least one sibling.
C18_BranchDepth ==
    last.op = "branch_depth" =>
        last.depth =
            Cardinality({a \in Ancestors(parent_node, last.segment, MaxId) :
                            siblings(parent_node, children, a) # <<>>})

\* a is a proper ancestor of s
ProperAncestor(a, s) == a \in Ancestors(parent_node, s, MaxId)

\* C19: s.path_to_ancestor(a) yields s and then its successive parents, in
\* child-to-parent order, up to the child of a, when a is a proper ancestor
\* of s; when a is no ancestor of s (a = s included) the iteration ends with
\* an exception.
C19_PathToAncestor ==
    last.op = "path_to_ancestor" =>
        LET s == last.segment
            a == last.ancestor
            path == last.yielded
        IN  IF ProperAncestor(a, s)
            THEN /\ last.raised = ""
                 /\ path # <<>>
                 /\ path[1] = s
                 /\ \A k \in 1..(Len(path) - 1) :
                       path[k + 1] = parent(parent_node, path[k])
                 /\ parent(parent_node, path[Len(path)]) = a
            ELSE last.raised # ""

(***************************************************************************)
(* normalise_spatial_sampling: the branches processed                      *)
(***************************************************************************)
\* normalise_spatial_sampling applied to a tree as from_9ml builds it
NormaliseInitialTree ==
    steps = 0 /\ last'.op = "normalise_spatial_sampling"

\* C20: normalise_spatial_sampling processes every non-root branch of the
\* input tree exactly once, a branch after the branch of its parent, although
\* it detaches each processed branch from the input tree while the iteration
\* over the branches is running: no sibling branch is skipped, and the name
\* of the parent of a branch resolves to exactly one segment of the new tree
\* (no KeyError, no AssertionError).
C20_EveryBranchOnce ==
    [][NormaliseInitialTree =>
         LET done == last'.processed
             todo == Tail(branches)
         IN  /\ last'.raised = "ok"
             /\ Range(done) = Range(todo)
             /\ NoDup(done)
             /\ \A i, j \in 1..Len(done) :
                   parent(parent_node, done[j][1]) = done[i][Len(done[i])]
                     => i < j]_vars

(***************************************************************************)
(* normalise_spatial_sampling: the tree returned                           *)
(***************************************************************************)
\* a call of normalise_spatial_sampling that returns a tree
NormaliseReturns ==
    /\ steps' = steps + 1
    /\ last'.op = "normalise_spatial_sampling"
    /\ last'.raised = "ok"

\* the segments of the list segs have pairwise distinct names
UniqueNames(nm, segs) ==
    \A i, j \in 1..Len(segs) : i # j => nm[segs[i]] # nm[segs[j]]

\* C21: segment names stay unique across re-sampling: for an input tree with
\* pairwise distinct segment names, whatever the segment counts of the
\* d-lambda rule, the segment names of the tree normalise_spatial_sampling
\* returns are pairwise distinct.
C21_NamesStayUnique ==
    [][(NormaliseReturns /\ UniqueNames(name, segments)) =>
         UniqueNames(name', segments_of(children', root_segment'))]_vars


\* the number of segments the d_lambda rule gives a branch of the tree that
\* is re-sampled
branch_count(branch, d_lambda) ==
    LET avg == branch_averages(Tree, branch)
    IN  d_lambda_rule(avg.length, avg.diameter, avg.Ra, avg.cm, DefaultFreq,
                      d_lambda)

\* C22: for every non-root branch re-sampled by normalise_spatial_sampling, the
\* chain of new segments has exactly as many segments as d_lambda_rule
\* returns for the branch, each new segment has the length branch_length /
\* count, and the lengths of the chain sum to the length of the branch.
C22_EvenlySpaced ==
    [][NormaliseReturns =>
         \A k \in 1..Len(last'.processed) :
            LET branch == last'.processed[k]
                chain == last'.chains[k]
                count == branch_count(branch, last'.d_lambda)
                len == branch_length(Tree, branch)
                new_length(seg) ==
                    length(parent_node', distal', proximal_offset', seg)
            IN  /\ Len(chain) = count
                /\ \A i \in 1..Len(chain) :
                      new_length(chain[i]) = RDiv(len, RInt(count))
                /\ RSum([i \in 1..Len(chain) |-> new_length(chain[i])]) = len]_vars

\* C23: when the first segment of a re-sampled branch carries a non-zero
\* proximal offset, the first segment of the chain that replaces it in the
\* returned tree carries the same proximal offset, and no later segment of
\* the chain has one.
C23_ProximalOffsetCarried ==
    [][NormaliseReturns =>
         \A k \in 1..Len(last'.processed) :
            LET branch == last'.processed[k]
                chain == last'.chains[k]
            IN  proximal_offset[branch[1]] # RZero =>
                  /\ proximal_offset'[chain[1]] = proximal_offset[branch[1]]
                  /\ \A i \in 2..Len(chain) :
                        proximal_offset'[chain[i]] = RZero]_vars

\* the axial resistance components a segment has after the step
Ra_after(seg) == components_by_type(components'[seg], "AxialResistanceModel")

\* C24: when the segments of a re-sampled branch reference more than one
\* axial resistance component, all segments of the new chain share one newly
\* created component, whose value is the length-weighted average and whose
\* needs_tuning flag is true exactly when a replaced component needed tuning;
\* in that case the returned Ra_to_tune holds the new component and none of
\* the replaced ones.  When the branch has one component, the new segments
\* reuse it unchanged.
C24_SharedAxialResistance ==
    [][NormaliseReturns =>
         \A k \in 1..Len(last'.processed) :
            LET branch == last'.processed[k]
                chain == last'.chains[k]
                replaced == Ra_set(Tree, branch)
                new_comp == Ra_after(chain[1])[1]
                value == weighted_average(Tree, branch,
                            [seg \in Range(branch) |->
                                static_value(Tree, seg, "AxialResistanceModel")])
                tuning == \E ra \in replaced : ra.needs_tuning
            IN  /\ \A i \in 1..Len(chain) : Ra_after(chain[i]) = <<new_comp>>
                /\ IF Cardinality(replaced) > 1
                   THEN /\ \A ra \in replaced : ra.name # new_comp.name
                        /\ new_comp.value = value
                        /\ new_comp.needs_tuning = tuning
                        /\ tuning => /\ new_comp \in last'.Ra_to_tune
                                      /\ last'.Ra_to_tune \cap replaced = {}
                   ELSE new_comp \in replaced]_vars

\* a call returned a set Ra_to_tune with a component that was created for a
\* branch of several axial resistances, one of which needed tuning
C24_Witness ==
    /\ last.op = "normalise_spatial_sampling"
    /\ last.raised = "ok"
    /\ \E comp \in last.Ra_to_tune : comp \notin RaComponents /\ comp.needs_tuning

\* a call of normalise_spatial_sampling with a ledger, on a tree and with a
\* d_lambda for which the call without a ledger returns
NormaliseWithLedger ==
    /\ steps' = steps + 1
    /\ last'.op = "normalise_spatial_sampling"
    /\ last'.ancestry
    /\ normalise_spatial_sampling(Tree, root_segment, FALSE, {}, DefaultFreq,
                                  last'.d_lambda).status = "ok"

\* C25: when normalise_spatial_sampling is given a BranchAncestry ledger, it
\* records its replacements and returns, and get_original(s) for every
\* segment s of the new tree follows the ledger for finitely many hops,
\* terminates, and names a segment of the original tree.
C25_LedgerResolves ==
    [][NormaliseWithLedger =>
         /\ last'.raised = "ok"
         /\ \A s \in Range(segments_of(children', root_segment')) :
               LET found == get_original(last'.history, name'[s],
                                         Cardinality(DOMAIN last'.history) + 1)
               IN  /\ found.terminated
                   /\ \E o \in Range(segments) : name[o] = found.seg_name]_vars

\* C29: every segment of the tree normalise_spatial_sampling returns carries
\* exactly one axial resistance component and exactly one membrane
\* capacitance component, so that seg.Ra and seg.cm can be read on each of
\* them and the tree can be re-sampled again.
C29_OneRaOneCm ==
    [][NormaliseReturns =>
         \A s \in Range(segments_of(children', root_segment')) :
            /\ Len(components_by_type(components'[s], "AxialResistanceModel")) = 1
            /\ Len(components_by_type(components'[s],
                                      "MembraneCapacitanceModel")) = 1]_vars

(***************************************************************************)
(* merge_leaves: the groups merged                                         *)
(***************************************************************************)
\* a call merge_leaves(only_most_distal) that returned
MergeReturned(only_most_distal) ==
    /\ steps' = steps + 1
    /\ last'.op = "merge_leaves"
    /\ ~last'.raised
    /\ candidates(Tree, root_segment, only_most_distal) # <<>>
    /\ last'.merged = merge_leaves(Tree, root_segment, only_most_distal).merged

\* the start of the branch is still a child of the parent it had
StillAttached(branch) ==
    LET par == parent(parent_node, branch[1])
    IN  IF par \in Ids THEN branch[1] \in Range(children'[par])
        ELSE root_segment' = branch[1]

\* C26: merge_leaves merges every group of more than one candidate branch
\* with the same parent segment and the same class set, whatever the order
\* in which the branches are enumerated: after the call no parent retains two
\* candidate sibling branches with equal class sets, and a candidate that is
\* alone in its group is left where it was.
C26_EveryGroupMerged ==
    [][\A only_most_distal \in BOOLEAN :
         MergeReturned(only_most_distal) =>
            LET cands == candidates(Tree, root_segment, only_most_distal)
                same(i, j) == group_key(Tree, cands[i]) = group_key(Tree, cands[j])
            IN  \A i \in 1..Len(cands) :
                   IF \E j \in 1..Len(cands) : j # i /\ same(i, j)
                   THEN \A j \in 1..Len(cands) :
                           (j # i /\ same(i, j)) =>
                              ~(StillAttached(cands[i]) /\ StillAttached(cands[j]))
                   ELSE StillAttached(cands[i])]_vars

\* C30: every call of merge_leaves that returns without raising
\* IrreducibleMorphologyException leaves the tree with strictly fewer
\* segments than it had.
C30_MergeDecreases ==
    [][(MergeStep /\ ~last'.raised) =>
         Len(segments_of(children', root_segment')) < Len(segments)]_vars

(***************************************************************************)
(* passive_model: the components of the copy                               *)
(***************************************************************************)
\* the component is one passive_model is to remove
NonPassive(comp, leak_components) ==
    IsDynamic(comp) /\ comp.class_name \notin leak_components

\* C27: in the copy passive_model(leak_components) returns, no segment holds
\* a dynamic component whose class_name is not in leak_components, whatever
\* the number and the order of the components of the segment, and every
\* static component and every leak component of the segment is retained.
C27_PassiveCopy ==
    [][last'.op = "passive_model" =>
         \A seg \in Range(segments) :
            /\ \A k \in 1..Len(components'[seg]) :
                  ~NonPassive(components'[seg][k], last'.leak_components)
            /\ \A k \in 1..Len(components[seg]) :
                  ~NonPassive(components[seg][k], last'.leak_components)
                     => components[seg][k] \in Range(components'[seg])]_vars

(***************************************************************************)
(* remove_children                                                         *)
(***************************************************************************)
\* C28: after remove_children() the segment has no children left and every
\* former child has no parent; and the children of the root of the tree
\* normalise_spatial_sampling returns are all new segments, none a copy of a
\* child of the old root that remove_children left on the copied root.
C28_NoChildrenLeft ==
    [][/\ (steps' = steps + 1 /\ last'.op = "remove_children") =>
            /\ children'[last'.segment] = <<>>
            /\ \A child \in Range(children[last'.segment]) :
                  parent_node'[child] = NoNode
       /\ NormaliseReturns =>
            \A child \in Range(children'[root_segment']) :
               \E k \in 1..Len(last'.chains) : child \in Range(last'.chains[k])]_vars
=============================================================================
